---- MODULE Spec2Model ----
(***************************************************************************)
(* Tenant-scoped metrics precalculation engine (src/cache-scheduler.js).   *)
(*                                                                         *)
(* Eight specifications share the variables of this module:                *)
(*   SpecClient  callFrontApi: one call against an arbitrary provider      *)
(*   SpecRegen   precalculateDepartment / precalculateIndividuals          *)
(*   SpecRange   getDateRange on every day of three years                  *)
(*   Spec        runPrecalculation and regenerateSpecific over the         *)
(*               Directory (db) and the file cache                         *)
(*   SpecSched   scheduleJobs: the hourly check and the passes it starts   *)
(*   SpecServer  the passes of one server process, their HTTP triggers     *)
(*               and the cache files as other readers see them             *)
(*   SpecFair    the operations of Spec with fair continuations            *)
(*   SpecRepair  runPrecalculation(false) repeated on one day over a       *)
(*               steady Directory, with fairness                           *)
(* JavaScript values: an absent property is the string "undefined".        *)
(***************************************************************************)
EXTENDS Integers, Sequences, FiniteSets, TLC

VARIABLES
  \* ---- callFrontApi (one call) ----
  cpc,            \* "idle" | "loop" (inside while) | "done" (returned)
  retries,        \* let retries
  requests,       \* number of fetch() requests issued by the call
  nPending,       \* responses with 2xx and status # 'done' seen so far
  pendingRun,     \* how many of them came in a row, up to the last response
  n429,           \* 429 responses seen so far
  backoffWaits,   \* delay() calls of the pending branch
  rateWaits,      \* delay() calls of the 429 branch
  lastWait,       \* milliseconds of the last delay(), 0 when none
  lastResp,       \* kind of the last provider response
  lastHint,       \* number carried by the last 429 payload (<<>>: none read)
  lastPayload,    \* metrics carried by the last 'done' body ("undefined": none yet)
  result,         \* the value returned by callFrontApi
  \* ---- clock ----
  now,            \* new Date(): minutes since 2025-01-01T00:00Z
  \* ---- precalculateDepartment / precalculateIndividuals (one invocation) ----
  rpc,            \* "idle" | "loop" (for ... of users.entries()) | "done"
  department,     \* departmentName ('individuals' for precalculateIndividuals)
  rangeName,      \* rangeName
  users,          \* the roster read from the Directory
  existingCache,  \* the existingCache argument (Null when none)
  idx,            \* index + 1 of the loop
  apiResponses,   \* const apiResponses = []
  calls,          \* ids for which callFrontApi was called, in call order
  regenOut,       \* the value returned (Null: no entry)
  \* ---- cache directory ----
  cache,          \* file of each key: an entry, Null (no file), Corrupt
  \* ---- runPrecalculation / regenerateSpecific (one at a time) ----
  op,             \* "idle" | "runAll" | "selective"
  lastOp,         \* the operation started last: "none" | "runAll" | "selective"
  stage,          \* "none" | "tenant" | "combo" | "regen" | "item"
  forceAll,       \* the forceAll argument
  tenants,        \* rows returned by db.getActiveTenants()
  ti,             \* position in tenants
  keys,           \* row returned by db.getTenantApiKeys()
  departments,    \* names returned by getDepartmentsForTenant()
  phase,          \* "dept" | "indiv": which loop of the tenant body runs
  di,             \* position in departments
  ri,             \* position in RANGES
  cached,         \* const cached = readFromCache(...)
  decision,       \* "none" | "skip" | "regen" | "threw": outcome of the test
  isRetry,        \* const isRetry
  items,          \* regenerateSpecific: the items argument
  ii,             \* position in items
  results,        \* regenerateSpecific: const results = []
  deleted,        \* regenerateSpecific: content of the file it unlinked
  rosterFailed,   \* the roster query of the invocation under way rejected
  apiKey,         \* the apiKey argument of the precalculate call under way
  endpoint,       \* its endpoint argument: the tenant whose key row gave it
  activeIds,      \* tenants whose is_active is TRUE when the operation starts
  \* ---- history of the current operation ----
  passStatus,     \* "none" | "running" | "complete" | "failed"
  failCause,      \* where the rejection came from
  reached,        \* tenants whose loop body was entered
  expected,       \* combinations the loops of the entered tenants cover
  processed,      \* combinations whose loop body was entered
  served,         \* provider calls the rosters served so far account for
  ops,            \* operations started so far
  \* ---- scheduleJobs (the process that runs the Scheduler) ----
  alive,          \* the Node process is running
  started,        \* scheduleJobs() has been called
  startedAt,      \* instant of that call
  nextCheck,      \* instant at which the setInterval callback runs next
  schedDays,      \* New York day of every 'Scheduled run triggered', in order
  inFlight,       \* runPrecalculation() promises not settled yet
  unhandled,      \* rejections of those promises, which nothing handles
  \* ---- the server process: passes in flight, their triggers, the files ----
  wstate,         \* per pass: "idle" | "refused" | "running" | "inprogress" |
                  \*   "computed" | "writing" | "finished" | "failed"
  wpos,           \* per pass: position in the keys it goes through
  worked,         \* per pass: one of its regeneration steps has completed
  response,       \* per pass: what its HTTP trigger answered ("none": nothing)
  disk,           \* per key: the file as the operating system holds it
  writing,        \* the pass inside fs.writeFileSync, "none" otherwise
  lastRead,       \* per reader: the content its last read returned
  reusesOld,      \* per pass: the existingCache of its precalculate call
                  \*   carries records of a file found at start
  \* ---- getDateRange (one evaluation) ----
  dowInstant,     \* lastWeek: the instant of its own new Date() (const nowET)
  rangeOut        \* the value returned, or that the call threw

clientVars == <<cpc, retries, requests, nPending, pendingRun, n429, backoffWaits,
                rateWaits, lastWait, lastResp, lastHint, lastPayload, result>>

regenVars == <<rpc, department, rangeName, users, existingCache, idx,
               apiResponses, calls, regenOut>>

orchVars == <<cache, op, lastOp, stage, forceAll, tenants, ti, keys, departments,
              phase, di, ri, cached, decision, isRetry, items, ii, results,
              deleted, rosterFailed, apiKey, endpoint, activeIds, passStatus,
              failCause,
              reached, expected, processed, served, ops>>

schedVars == <<alive, started, startedAt, nextCheck, schedDays, inFlight,
               unhandled>>

serverVars == <<wstate, wpos, worked, response, disk, writing, lastRead,
                reusesOld>>

rangeVars == <<dowInstant, rangeOut>>

vars == <<clientVars, now, regenVars, orchVars, schedVars, serverVars, rangeVars>>

Undefined == "undefined"

(***************************************************************************)
(* callFrontApi                                                            *)
(***************************************************************************)
maxRetries == 25

DefaultHintMs == 5000
SafetyMarginMs == 1000
BackoffBaseMs == 2500
BackoffStepMs == 500
BackoffCapMs == 8000

\* Hints a 429 payload can carry in _error.message: <<n>> is the first number
\* of the message, <<>> a payload without one.
Hints == {<<>>, <<0>>, <<2000>>}

\* Statuses of a 2xx body other than 'done'.
NotDoneStatuses == {"pending", "running", "failed"}

\* Metric triples (received, sent, avg reply seconds) a done body can carry,
\* named by a tag; "noMetrics": a done body without a metrics array.
MetricsTags == {"M1", "M2"}
DonePayloads == MetricsTags \cup {"noMetrics"}

\* error.message of the exceptions caught inside the loop.
MsgApiError == "API error: 500"
MsgNetwork == "fetch failed"
MsgBadJson == "Unexpected token"
MsgMaxRetries == "Max retries reached"

ApiDataResult(payload) == [apiData |-> payload, error |-> Undefined]
ErrorResult(msg) == [apiData |-> Undefined, error |-> msg]
NoResult == [apiData |-> Undefined, error |-> Undefined]

\* while (retries < maxRetries)
LoopContinuesOffByOne(r) == r <= maxRetries
LoopContinues(r) == r < maxRetries

\* if (retries < maxRetries) before the backoff delay
BackoffGuardInverted(r) == r >= maxRetries
BackoffGuard(r) == r < maxRetries

Min(a, b) == IF a < b THEN a ELSE b

\* parseInt(errorData._error?.message?.match(/\d+/)?.[0] || 5000)
WaitTime(hint) == IF hint = <<>> THEN DefaultHintMs ELSE hint[1]

\* A backoff without its cap.
BackoffMsUncapped(r) == BackoffBaseMs + (r * BackoffStepMs)

\* Math.min(2500 + (retries * 500), 8000)
BackoffMs(r) == Min(BackoffBaseMs + (r * BackoffStepMs), BackoffCapMs)

\* The loop condition is evaluated right after a retrying branch: the call
\* returns 'Max retries reached' as soon as it fails.
AfterRetry(r) ==
  IF LoopContinues(r)
    THEN /\ cpc' = "loop"
         /\ result' = NoResult
    ELSE /\ cpc' = "done"
         /\ result' = ErrorResult(MsgMaxRetries)

Return(res) ==
  /\ cpc' = "done"
  /\ result' = res
  /\ UNCHANGED <<retries, nPending, pendingRun, n429, backoffWaits, rateWaits,
                 lastWait>>

\* A response that is not a 'done' body leaves lastPayload alone.
ReturnError(msg) ==
  /\ Return(ErrorResult(msg))
  /\ UNCHANGED <<lastPayload, lastHint>>

\* callFrontApi(...) is entered: retries = 0, then the while test.
CallStart ==
  /\ cpc = "idle"
  /\ retries' = 0
  /\ requests' = 0
  /\ nPending' = 0
  /\ pendingRun' = 0
  /\ n429' = 0
  /\ backoffWaits' = 0
  /\ rateWaits' = 0
  /\ lastWait' = 0
  /\ lastResp' = "none"
  /\ lastHint' = <<>>
  /\ lastPayload' = Undefined
  /\ AfterRetry(0)

\* response.status === 429 with a readable JSON body
RateLimited(hint) ==
  /\ cpc = "loop"
  /\ requests' = requests + 1
  /\ lastResp' = "429"
  /\ lastHint' = hint
  /\ n429' = n429 + 1
  /\ lastWait' = WaitTime(hint) + SafetyMarginMs
  /\ rateWaits' = rateWaits + 1
  /\ retries' = retries + 1
  /\ pendingRun' = 0
  /\ AfterRetry(retries + 1)
  /\ UNCHANGED <<nPending, backoffWaits, lastPayload>>

\* response.status === 429 and response.json() rejects: caught by the catch
RateLimitedBadBody ==
  /\ cpc = "loop"
  /\ requests' = requests + 1
  /\ lastResp' = "429bad"
  /\ ReturnError(MsgBadJson)

\* !response.ok: throw new Error(`API error: ${response.status}`), caught
HardFailureRetried ==
  /\ cpc = "loop"
  /\ requests' = requests + 1
  /\ lastResp' = "non2xx"
  /\ retries' = retries + 1
  /\ lastWait' = BackoffMs(retries + 1)
  /\ backoffWaits' = backoffWaits + 1
  /\ AfterRetry(retries + 1)
  /\ UNCHANGED <<nPending, pendingRun, n429, rateWaits, lastPayload, lastHint>>
HardFailure ==
  /\ cpc = "loop"
  /\ requests' = requests + 1
  /\ lastResp' = "non2xx"
  /\ ReturnError(MsgApiError)

\* fetch() rejects (network failure), caught
NetworkFailure ==
  /\ cpc = "loop"
  /\ requests' = requests + 1
  /\ lastResp' = "netfail"
  /\ ReturnError(MsgNetwork)

\* 2xx whose body is not JSON: response.json() rejects, caught
BadJson ==
  /\ cpc = "loop"
  /\ requests' = requests + 1
  /\ lastResp' = "badjson"
  /\ ReturnError(MsgBadJson)

\* data.status === 'done': return { apiData: data }
Done(payload) ==
  /\ cpc = "loop"
  /\ requests' = requests + 1
  /\ lastResp' = "done"
  /\ lastPayload' = payload
  /\ Return(ApiDataResult(payload))
  /\ UNCHANGED lastHint

\* any other status: retries++, progressive backoff unless the budget is spent
NotDone(status) ==
  /\ cpc = "loop"
  /\ requests' = requests + 1
  /\ lastResp' = status
  /\ nPending' = nPending + 1
  /\ pendingRun' = pendingRun + 1
  /\ retries' = retries + 1
  /\ IF BackoffGuard(retries + 1)
       THEN /\ lastWait' = BackoffMs(retries + 1)
            /\ backoffWaits' = backoffWaits + 1
       ELSE UNCHANGED <<lastWait, backoffWaits>>
  /\ AfterRetry(retries + 1)
  /\ UNCHANGED <<n429, rateWaits, lastPayload, lastHint>>

\* The caller takes the result; the next call may start.
CallReturn ==
  /\ cpc = "done"
  /\ cpc' = "idle"
  /\ UNCHANGED <<retries, requests, nPending, pendingRun, n429, backoffWaits,
                 rateWaits, lastWait, lastResp, lastHint, lastPayload, result>>

InitClient ==
  /\ cpc = "idle"
  /\ retries = 0
  /\ requests = 0
  /\ nPending = 0
  /\ pendingRun = 0
  /\ n429 = 0
  /\ backoffWaits = 0
  /\ rateWaits = 0
  /\ lastWait = 0
  /\ lastResp = "none"
  /\ lastHint = <<>>
  /\ lastPayload = Undefined
  /\ result = NoResult

NextClient ==
  \/ CallStart
  \/ \E hint \in Hints : RateLimited(hint)
  \/ RateLimitedBadBody
  \/ HardFailure
  \/ NetworkFailure
  \/ BadJson
  \/ \E payload \in DonePayloads : Done(payload)
  \/ \E status \in NotDoneStatuses : NotDone(status)
  \/ CallReturn


\* The results callFrontApi can return.
CallFrontApiResults ==
  {ApiDataResult(p) : p \in DonePayloads}
    \cup {ErrorResult(m) : m \in {MsgApiError, MsgNetwork, MsgBadJson, MsgMaxRetries}}

ClientTypeOK ==
  /\ cpc \in {"idle", "loop", "done"}
  /\ retries \in 0..maxRetries
  /\ requests = retries + (IF lastResp \in {"429bad", "non2xx", "netfail", "badjson", "done"} THEN 1 ELSE 0)
  /\ cpc = "done" => result \in CallFrontApiResults

(***************************************************************************)
(* Cache entries and ResultRecords                                         *)
(***************************************************************************)
\* readFromCache's null / the existingCache = null default
Null == [kind |-> "null"]

\* One element of apiResponses: { recordIndex, record: user, ...result }.
\* record is <<id>>, or <<>> when the property is absent.
ResultRecord(index, userId, res) ==
  [recordIndex |-> index, record |-> <<userId>>,
   apiData |-> res.apiData, error |-> res.error]

\* The object precalculateDepartment / precalculateIndividuals return.
\* hasList = FALSE: a cached document without an apiResponses property.
CacheEntry(dept, rng, at, total, resps) ==
  [kind |-> "entry", department |-> dept, range |-> rng, generatedAt |-> at,
   totalRecords |-> total, hasList |-> TRUE, apiResponses |-> resps]

(***************************************************************************)
(* precalculateDepartment / precalculateIndividuals                        *)
(***************************************************************************)
\* resp.apiData && resp.apiData.metrics && resp.record
IsReusableAnyApiData(resp) == resp.apiData # Undefined /\ resp.record # <<>>
IsReusable(resp) == resp.apiData \in MetricsTags /\ resp.record # <<>>

\* existingCache && existingCache.apiResponses: the list the map is built from
ExistingResponses(existing) ==
  IF existing # Null /\ existing.hasList THEN existing.apiResponses ELSE <<>>

\* existingSuccessMap: Map.set in list order, so the last success of an id wins
RECURSIVE SuccessMapUpTo(_, _)
SuccessMapUpTo(resps, n) ==
  IF n = 0 THEN [id \in {} |-> Null]
  ELSE LET m == SuccessMapUpTo(resps, n - 1)
           r == resps[n]
       IN IF IsReusable(r)
            THEN [id \in (DOMAIN m) \cup {r.record[1]} |->
                    IF id = r.record[1] THEN r ELSE m[id]]
            ELSE m

ExistingSuccessMap(existing) ==
  SuccessMapUpTo(ExistingResponses(existing), Len(ExistingResponses(existing)))

\* A loop that gives up at the first record whose result is an error.
LoopAdvanceStopsOnError(resps) ==
  /\ apiResponses' = resps
  /\ idx' = idx + 1
  /\ IF idx < Len(users) /\ resps[Len(resps)].error = Undefined
       THEN /\ rpc' = "loop"
            /\ regenOut' = Null
       ELSE /\ rpc' = "done"
            /\ regenOut' = CacheEntry(department, rangeName, now, Len(users), resps)

\* After the last iteration the function returns the entry
\* (generatedAt: new Date().toISOString(), totalRecords: users.length).
LoopAdvance(resps) ==
  /\ apiResponses' = resps
  /\ idx' = idx + 1
  /\ IF idx < Len(users)
       THEN /\ rpc' = "loop"
            /\ regenOut' = Null
       ELSE /\ rpc' = "done"
            /\ regenOut' = CacheEntry(department, rangeName, now, Len(users), resps)

\* An entry function that returns an entry with no records for an empty roster.
PrecalculateStartEmptyEntry(dept, rng, roster, existing) ==
  /\ department' = dept
  /\ rangeName' = rng
  /\ users' = roster
  /\ existingCache' = existing
  /\ apiResponses' = <<>>
  /\ calls' = <<>>
  /\ idx' = 1
  /\ regenOut' = IF Len(roster) = 0 THEN CacheEntry(dept, rng, now, 0, <<>>) ELSE Null
  /\ rpc' = IF Len(roster) = 0 THEN "done" ELSE "loop"

\* Entry of the function: the roster is read; an empty roster returns null.
PrecalculateStart(dept, rng, roster, existing) ==
  /\ department' = dept
  /\ rangeName' = rng
  /\ users' = roster
  /\ existingCache' = existing
  /\ apiResponses' = <<>>
  /\ calls' = <<>>
  /\ idx' = 1
  /\ regenOut' = Null
  /\ rpc' = IF Len(roster) = 0 THEN "done" ELSE "loop"

\* A reuse branch that continues without pushing the reused record.
PrecalcReuseDropsRecord ==
  /\ rpc = "loop"
  /\ users[idx] \in DOMAIN ExistingSuccessMap(existingCache)
  /\ LoopAdvance(apiResponses)
  /\ UNCHANGED <<department, rangeName, users, existingCache, calls>>

\* if (existingSuccessMap.has(user.id)) { apiResponses.push(...); continue; }
PrecalcReuse ==
  /\ rpc = "loop"
  /\ users[idx] \in DOMAIN ExistingSuccessMap(existingCache)
  /\ LoopAdvance(Append(apiResponses, ExistingSuccessMap(existingCache)[users[idx]]))
  /\ UNCHANGED <<department, rangeName, users, existingCache, calls>>

\* const result = await callFrontApi(...); apiResponses.push({...})
PrecalcFetch(res) ==
  /\ rpc = "loop"
  /\ users[idx] \notin DOMAIN ExistingSuccessMap(existingCache)
  /\ calls' = Append(calls, users[idx])
  /\ LoopAdvance(Append(apiResponses, ResultRecord(idx, users[idx], res)))
  /\ UNCHANGED <<department, rangeName, users, existingCache>>

\* What the provider side of one call amounts to for the Regenerator.
FetchResults ==
  {ApiDataResult("M2"), ApiDataResult("noMetrics"), ErrorResult(MsgMaxRetries)}

InitRegen ==
  /\ rpc = "idle"
  /\ department = "none"
  /\ rangeName = "none"
  /\ users = <<>>
  /\ existingCache = Null
  /\ idx = 1
  /\ apiResponses = <<>>
  /\ calls = <<>>
  /\ regenOut = Null

(***************************************************************************)
(* Business-timezone dates (getNowInTimezone, needsUpdate)                 *)
(***************************************************************************)
\* America/New_York is UTC-5 in standard time and UTC-4 in daylight time.
EtOffsetMinutes == 5 * 60
EdtOffsetMinutes == 4 * 60
MinutesPerDay == 24 * 60

YearLength(y) == IF y % 4 = 0 THEN 366 ELSE 365

MonthLength(y, m) ==
  IF m = 2 THEN (IF y % 4 = 0 THEN 29 ELSE 28)
  ELSE IF m \in {4, 6, 9, 11} THEN 30 ELSE 31

RECURSIVE YearAndDay(_, _)
YearAndDay(d, y) ==
  IF d < 0 THEN YearAndDay(d + YearLength(y - 1), y - 1)
  ELSE IF d >= YearLength(y) THEN YearAndDay(d - YearLength(y), y + 1)
  ELSE <<y, d>>

RECURSIVE MonthAndDay(_, _, _)
MonthAndDay(y, d, m) ==
  IF d >= MonthLength(y, m) THEN MonthAndDay(y, d - MonthLength(y, m), m + 1)
  ELSE <<m, d + 1>>

\* Day of the week of day number d, 0 for Sunday (weekday: 'short' looked up
\* in ['Sun', ..., 'Sat']); day 0, 2025-01-01, is a Wednesday.
Weekday(d) == (d + 3) % 7

\* Day number of 1 January of year y
RECURSIVE YearStart(_)
YearStart(y) ==
  IF y = 2025 THEN 0
  ELSE IF y > 2025 THEN YearStart(y - 1) + YearLength(y - 1)
  ELSE YearStart(y + 1) - YearLength(y)

\* Days of year y before its month m (1-based)
RECURSIVE MonthStart(_, _)
MonthStart(y, m) ==
  IF m = 1 THEN 0 ELSE MonthStart(y, m - 1) + MonthLength(y, m - 1)

\* Date.UTC(year, month, day) as a day number: month is 0-based, and a month
\* or a day outside its range carries over (month -1 or 12, day 0 or below)
DateUTC(year, month, day) ==
  LET y == year + (month \div 12)
      m == month % 12
  IN YearStart(y) + MonthStart(y, m + 1) + day - 1

\* getUTCFullYear(), getUTCMonth() (0-based), getUTCDate() of a day number
UTCParts(d) ==
  LET yd == YearAndDay(d, 2025)
      md == MonthAndDay(yd[1], yd[2], 1)
  IN [year |-> yd[1], month |-> md[1] - 1, day |-> md[2]]

\* The first Sunday on or after day d
FirstSundayFrom(d) == d + ((7 - Weekday(d)) % 7)

\* Daylight time in America/New_York runs from 02:00 of the second Sunday of
\* March (07:00Z) to 02:00 of the first Sunday of November (06:00Z).
DstStart(y) == ((FirstSundayFrom(DateUTC(y, 2, 1)) + 7) * MinutesPerDay) + (7 * 60)
DstEnd(y) == (FirstSundayFrom(DateUTC(y, 10, 1)) * MinutesPerDay) + (6 * 60)

\* Minutes New York is behind UTC at instant t (minutes since
\* 2025-01-01T00:00Z)
EtOffsetAt(t) ==
  LET y == YearAndDay(t \div MinutesPerDay, 2025)[1]
  IN IF DstStart(y) <= t /\ t < DstEnd(y) THEN EdtOffsetMinutes ELSE EtOffsetMinutes

\* Day number (0 is 2025-01-01) of the New York wall-clock date of instant t.
EtDay(t) == (t - EtOffsetAt(t)) \div MinutesPerDay

\* Intl.DateTimeFormat('en-US', {timeZone: TIMEZONE, year, month, day})
\*   .formatToParts(date): month is 1-based
FormatToParts(t) ==
  LET yd == YearAndDay(EtDay(t), 2025)
      md == MonthAndDay(yd[1], yd[2], 1)
  IN [year |-> yd[1], month |-> md[1], day |-> md[2]]

\* getNowInTimezone(): month is 0-based
GetNowInTimezone(t) ==
  LET p == FormatToParts(t)
  IN [year |-> p.year, month |-> p.month - 1, day |-> p.day]

\* `${year}-${pad(month+1)}-${pad(day)}`; the padded string is one-to-one
\* with the triple
TodayStr(t) ==
  LET n == GetNowInTimezone(t) IN <<n.year, n.month + 1, n.day>>

\* `${genYear}-${pad(genMonth)}-${pad(genDay)}`
GenStr(generatedAt) ==
  LET p == FormatToParts(generatedAt) IN <<p.year, p.month, p.day>>

(***************************************************************************)
(* getDateRange, toUnixInTimezone: Unix seconds are counted from           *)
(* 2025-01-01T00:00:00Z                                                    *)
(***************************************************************************)
SecondsPerMinute == 60
SecondsPerHour == 60 * 60
SecondsPerDay == 24 * 60 * 60

\* toUnixInTimezone(year, month, day, hours, minutes, seconds): the wall time
\* is read as UTC (utcDate), the offset between UTC and New York is taken at
\* that instant (utcStr against tzStr), and added.
ToUnixInTimezone(year, month, day, hours, minutes, seconds) ==
  LET utcDate == (DateUTC(year, month, day) * SecondsPerDay)
                   + (hours * SecondsPerHour) + (minutes * SecondsPerMinute) + seconds
      offset == EtOffsetAt(utcDate \div SecondsPerMinute) * SecondsPerMinute
  IN utcDate + offset

\* case 'lastWeek': t is the instant getNowInTimezone() read, tDow the one the
\* case read for the day of the week
LastWeekRange(t, tDow) ==
  LET n == GetNowInTimezone(t)
      dow == Weekday(EtDay(tDow))
      satEnd == UTCParts(DateUTC(n.year, n.month, n.day - dow - 1))
      sunStart == UTCParts(DateUTC(satEnd.year, satEnd.month, satEnd.day - 6))
  IN [start |-> ToUnixInTimezone(sunStart.year, sunStart.month, sunStart.day, 0, 0, 0),
      end |-> ToUnixInTimezone(satEnd.year, satEnd.month, satEnd.day, 23, 59, 59)]

\* The last day of the month the clock is in.
LastDayOfCurrentMonth(year, month) == DateUTC(year, month + 1, 0)

\* const lastDayOfLastMonth = new Date(Date.UTC(year, month, 0))
LastDayOfLastMonth(year, month) == DateUTC(year, month, 0)

\* case 'lastMonth'
LastMonthRange(t) ==
  LET n == GetNowInTimezone(t)
      lastMonthDate == UTCParts(DateUTC(n.year, n.month - 1, 1))
      lastDay == UTCParts(LastDayOfLastMonth(n.year, n.month))
  IN [start |-> ToUnixInTimezone(lastMonthDate.year, lastMonthDate.month, 1, 0, 0, 0),
      end |-> ToUnixInTimezone(lastDay.year, lastDay.month, lastDay.day, 23, 59, 59)]

\* A previous quarter that stays in the current year.
QuarterYearNoRollback(year, currentQuarter) == year

\* qStartYear, qEndYear: year - 1 if (currentQuarter === 0)
QuarterYear(year, currentQuarter) ==
  IF currentQuarter = 0 THEN year - 1 ELSE year

\* qStartMonth: 9 in the first quarter, (currentQuarter - 1) * 3 otherwise
QuarterStartMonth(currentQuarter) ==
  IF currentQuarter = 0 THEN 9 ELSE (currentQuarter - 1) * 3

\* case 'lastQuarter'
LastQuarterRange(t) ==
  LET n == GetNowInTimezone(t)
      currentQuarter == n.month \div 3
      qYear == QuarterYear(n.year, currentQuarter)
      qStartMonth == QuarterStartMonth(currentQuarter)
      qEndMonth == qStartMonth + 2
      lastDay == UTCParts(DateUTC(qYear, qEndMonth + 1, 0))
  IN [start |-> ToUnixInTimezone(qYear, qStartMonth, 1, 0, 0, 0),
      end |-> ToUnixInTimezone(lastDay.year, lastDay.month, lastDay.day, 23, 59, 59)]

\* Names getDateRange has no case for; the server's validRanges accepts them
UnknownRanges == {"yesterday", "thisWeek", "thisMonth"}

NoRange == [name |-> "none", threw |-> FALSE, start |-> 0, end |-> 0]

Returned(name, range) ==
  [name |-> name, threw |-> FALSE, start |-> range.start, end |-> range.end]

\* default: throw new Error(`Unknown range: ${rangeName}`)
Threw(name) == [name |-> name, threw |-> TRUE, start |-> 0, end |-> 0]

\* Minutes by which the clock can have moved on between the new Date() of
\* getNowInTimezone() and the new Date() of case 'lastWeek'
ClockTicks == {0, 1}

\* getDateRange('lastWeek')
GetLastWeek ==
  /\ rangeOut = NoRange
  /\ \E tick \in ClockTicks :
       /\ dowInstant' = now + tick
       /\ rangeOut' = Returned("lastWeek", LastWeekRange(now, now + tick))
  /\ UNCHANGED now

\* getDateRange('lastMonth')
GetLastMonth ==
  /\ rangeOut = NoRange
  /\ rangeOut' = Returned("lastMonth", LastMonthRange(now))
  /\ UNCHANGED <<now, dowInstant>>

\* getDateRange('lastQuarter')
GetLastQuarter ==
  /\ rangeOut = NoRange
  /\ rangeOut' = Returned("lastQuarter", LastQuarterRange(now))
  /\ UNCHANGED <<now, dowInstant>>

\* getDateRange of any other name
GetUnknownRange(name) ==
  /\ rangeOut = NoRange
  /\ rangeOut' = Threw(name)
  /\ UNCHANGED <<now, dowInstant>>

InitRange ==
  /\ dowInstant = 0
  /\ rangeOut = NoRange

\* The days the function is evaluated on: MaxRangeDays days, the first of
\* which is PastDays days before 2025-01-01 (2024-01-01)
PastDays == 366
MaxRangeDays == 1096

\* Times of day (UTC minutes) it is evaluated at: 03:59Z and 04:59Z are 23:59
\* in New York in daylight and in standard time, 12:00Z is the morning
RangeTimes == {239, 299, 720}

RangeInstants ==
  {(d * MinutesPerDay) + m :
     d \in (0 - PastDays)..(MaxRangeDays - PastDays - 1), m \in RangeTimes}

(***************************************************************************)
(* Cache files: saveToCache, readFromCache, hasCacheErrors, needsUpdate    *)
(***************************************************************************)
RANGES == <<"lastWeek", "lastMonth", "lastQuarter">>

\* A file whose content JSON.parse rejects
Corrupt == [kind |-> "corrupt"]

\* departmentName.toLowerCase().replace(/\s+/g, '-')
SubjectSlug(name) ==
  CASE name = "Sales" -> "sales"
    [] name = "individuals" -> "individuals"
    [] name = "Individuals" -> "individuals"
    [] OTHER -> name

\* `${tenantSlug}_${slug}_${rangeName}.json`
CacheKey(tenantSlug, name, rng) == <<tenantSlug, SubjectSlug(name), rng>>

\* response.error || !response.apiData || !response.apiData.metrics
IsFailedResponse(r) == r.error # Undefined \/ r.apiData \notin MetricsTags

\* A test that finds errors in every document.
HasCacheErrorsAlways(c) == TRUE

HasCacheErrors(c) ==
  IF c = Null \/ ~c.hasList THEN TRUE
  ELSE \E k \in DOMAIN c.apiResponses : IsFailedResponse(c.apiResponses[k])

\* needsUpdate(rangeName, cachedData): "yes" | "no", or "throws" when
\* cachedData.apiResponses.filter is applied to a missing list
NeedsUpdate(c, t) ==
  IF c = Null THEN "yes"
  ELSE IF HasCacheErrors(c) THEN (IF c.hasList THEN "yes" ELSE "throws")
  ELSE IF GenStr(c.generatedAt) = TodayStr(t) THEN "no" ELSE "yes"

(***************************************************************************)
(* The Directory (db) as the engine sees it                                *)
(***************************************************************************)
TenantRow(n) == [id |-> n, slug |-> IF n = 1 THEN "acme" ELSE "globex"]

\* db.getActiveTenants(): rows ORDER BY name; ok = FALSE: the query rejects
ActiveTenantsOutcomes ==
  {[ok |-> TRUE, rows |-> <<>>],
   [ok |-> TRUE, rows |-> <<TenantRow(1)>>],
   [ok |-> TRUE, rows |-> <<TenantRow(1), TenantRow(2)>>],
   [ok |-> FALSE, rows |-> <<>>]}

\* db.getTenantApiKeys(id): rows[0]; row = FALSE: undefined (no such tenant)
TenantKeysOutcomes ==
  {[ok |-> TRUE, row |-> FALSE, front |-> FALSE, indiv |-> FALSE],
   [ok |-> TRUE, row |-> TRUE, front |-> FALSE, indiv |-> FALSE],
   [ok |-> TRUE, row |-> TRUE, front |-> TRUE, indiv |-> FALSE],
   [ok |-> TRUE, row |-> TRUE, front |-> TRUE, indiv |-> TRUE],
   [ok |-> FALSE, row |-> FALSE, front |-> FALSE, indiv |-> FALSE]}

NoKeys == [ok |-> TRUE, row |-> FALSE, front |-> FALSE, indiv |-> FALSE]

\* keys.front_api_key / keys.front_api_key_individuals of the key row read
\* with this tenant's id
ApiKeyOf(tenantId, kind) == [tenant |-> tenantId, kind |-> kind]
NoCredential == [tenant |-> 0, kind |-> "none"]

\* db.getAllInboxes(tenantId): inbox names are free text, no name is reserved
InboxesOutcomes ==
  {[ok |-> TRUE, rows |-> <<>>],
   [ok |-> TRUE, rows |-> <<"Sales">>],
   [ok |-> TRUE, rows |-> <<"Individuals">>],
   [ok |-> FALSE, rows |-> <<>>]}

\* getDepartmentsForTenant / getUsersByDepartment / getIndividualUsersFromDB:
\* try { return rows } catch { return [] }
RowsOrEmpty(outcome) == IF outcome.ok THEN outcome.rows ELSE <<>>

MaxFetches == 1
MaxOps == 1
MaxItems == 1

\* db.getUsersByInboxName / db.getIndividualUsers: rosters of distinct ids
RosterOutcomes ==
  {[ok |-> TRUE, rows |-> r] : r \in {<<>>, <<1>>, <<1, 2>>}}
    \cup {[ok |-> FALSE, rows |-> <<>>]}

\* The calls to the provider an invocation with this roster and prior entry
\* makes; the environment serves MaxFetches calls in one run.
FetchesNeeded(roster, existing) ==
  Cardinality({k \in DOMAIN roster : roster[k] \notin DOMAIN ExistingSuccessMap(existing)})

(***************************************************************************)
(* runPrecalculation                                                       *)
(***************************************************************************)
CurrentSubject == IF phase = "dept" THEN departments[di] ELSE "individuals"
CurrentKey == CacheKey(tenants[ti].slug, CurrentSubject, RANGES[ri])

\* The promise of the operation rejects: nothing after the throw runs.
OperationFails(cause) ==
  /\ op' = "idle"
  /\ stage' = "none"
  /\ passStatus' = "failed"
  /\ failCause' = cause

OperationCompletes ==
  /\ op' = "idle"
  /\ stage' = "none"
  /\ passStatus' = "complete"
  /\ failCause' = "none"

\* for (const tenant of tenants): the body of tenant n of list, or the end
GotoTenant(list, n) ==
  IF n <= Len(list)
    THEN /\ op' = "runAll"
         /\ stage' = "tenant"
         /\ passStatus' = "running"
         /\ failCause' = "none"
         /\ ti' = n
    ELSE /\ OperationCompletes
         /\ ti' = n

\* The next iteration after the combination at (phase, di, ri)
AdvanceCombo ==
  IF ri < Len(RANGES)
    THEN /\ ri' = ri + 1
         /\ stage' = "combo"
         /\ UNCHANGED <<op, passStatus, failCause, ti, phase, di>>
  ELSE IF phase = "dept" /\ di < Len(departments)
    THEN /\ di' = di + 1
         /\ ri' = 1
         /\ stage' = "combo"
         /\ UNCHANGED <<op, passStatus, failCause, ti, phase>>
  ELSE IF phase = "dept" /\ keys.indiv
    THEN /\ phase' = "indiv"
         /\ ri' = 1
         /\ stage' = "combo"
         /\ UNCHANGED <<op, passStatus, failCause, ti, di>>
  ELSE /\ GotoTenant(tenants, ti + 1)
       /\ UNCHANGED <<phase, di, ri>>

ResetRegen ==
  /\ rpc' = "idle"
  /\ department' = "none"
  /\ rangeName' = "none"
  /\ users' = <<>>
  /\ existingCache' = Null
  /\ idx' = 1
  /\ apiResponses' = <<>>
  /\ calls' = <<>>
  /\ regenOut' = Null

\* runPrecalculation(forceAll): const tenants = await db.getActiveTenants()
RunPrecalculationEntry(force) ==
  /\ op = "idle"
  /\ lastOp' = "runAll"
  /\ forceAll' = force
  /\ reached' = {}
  /\ expected' = {}
  /\ processed' = {}
  /\ cached' = Null
  /\ decision' = "none"
  /\ isRetry' = FALSE
  /\ keys' = NoKeys
  /\ departments' = <<>>
  /\ phase' = "dept"
  /\ di' = 1
  /\ ri' = 1
  /\ items' = <<>>
  /\ ii' = 1
  /\ results' = <<>>
  /\ deleted' = Null
  /\ rosterFailed' = FALSE
  /\ apiKey' = NoCredential
  /\ endpoint' = 0
  /\ \E out \in ActiveTenantsOutcomes :
       \* WHERE is_active = TRUE: the rows are the active tenants
       /\ activeIds' = {out.rows[k].id : k \in DOMAIN out.rows}
       /\ IF out.ok
            THEN /\ tenants' = out.rows
                 /\ GotoTenant(out.rows, 1)
            ELSE /\ tenants' = <<>>
                 /\ ti' = 1
                 /\ OperationFails("tenants")
  /\ UNCHANGED <<cache, now, clientVars, regenVars>>

\* One of the MaxOps operations of a behaviour
StartRunAll(force) ==
  /\ ops < MaxOps
  /\ ops' = ops + 1
  /\ served' = served
  /\ RunPrecalculationEntry(force)

\* The combinations the loops of one tenant body cover
TenantCombos(slug, depts, indiv) ==
  {CacheKey(slug, depts[d], RANGES[r]) : d \in DOMAIN depts, r \in DOMAIN RANGES}
    \cup (IF indiv THEN {CacheKey(slug, "individuals", RANGES[r]) : r \in DOMAIN RANGES}
          ELSE {})

\* Head of the tenant body: keys, then departments
TenantStep ==
  /\ op = "runAll"
  /\ stage = "tenant"
  /\ reached' = reached \cup {tenants[ti].id}
  /\ \E k \in TenantKeysOutcomes :
       IF ~k.ok
         THEN \* await db.getTenantApiKeys(tenant.id) rejects outside any try
              /\ OperationFails("directory")
              /\ UNCHANGED <<keys, departments, phase, di, ri, ti, expected>>
       ELSE IF ~k.row \/ ~k.front
         THEN \* if (!keys || !keys.front_api_key) continue
              /\ GotoTenant(tenants, ti + 1)
              /\ UNCHANGED <<keys, departments, phase, di, ri, expected>>
       ELSE \E inboxes \in InboxesOutcomes :
              LET depts == RowsOrEmpty(inboxes) IN
              /\ keys' = k
              /\ departments' = depts
              /\ expected' = expected \cup TenantCombos(tenants[ti].slug, depts, k.indiv)
              /\ di' = 1
              /\ ri' = 1
              /\ IF Len(depts) > 0
                   THEN /\ phase' = "dept"
                        /\ stage' = "combo"
                        /\ UNCHANGED <<op, passStatus, failCause, ti>>
                 ELSE IF k.indiv
                   THEN /\ phase' = "indiv"
                        /\ stage' = "combo"
                        /\ UNCHANGED <<op, passStatus, failCause, ti>>
                 ELSE /\ phase' = "dept"
                      /\ GotoTenant(tenants, ti + 1)
  /\ UNCHANGED <<cache, lastOp, forceAll, tenants, cached, decision, isRetry,
                 items, ii, results, deleted, rosterFailed, apiKey, endpoint,
                 activeIds,
                 processed, served, ops, now, clientVars, regenVars>>

\* precalculateDepartment(..., apiKey, ...) in the department loop,
\* precalculateIndividuals(..., apiKeyIndividuals, ...) in the individuals loop
RunAllKeyKind == IF phase = "dept" THEN "department" ELSE "individuals"

\* A caller that never hands the entry it read to the Regenerator.
PriorArgumentAlwaysNull(c) == Null

\* isRetry ? cached : null
PriorArgument(c) == IF c # Null /\ HasCacheErrors(c) THEN c ELSE Null

\* Head of one (tenant, subject, range) iteration, up to the roster read of
\* precalculateDepartment / precalculateIndividuals
ComboStep ==
  /\ op = "runAll"
  /\ stage = "combo"
  /\ processed' = processed \cup {CurrentKey}
  /\ LET file == cache[CurrentKey]
         need == IF file = Corrupt THEN "throws" ELSE NeedsUpdate(file, now)
     IN
     IF file = Corrupt \/ (~forceAll /\ need = "throws")
       THEN \* readFromCache or needsUpdate throws before the try block
            /\ cached' = file
            /\ decision' = "threw"
            /\ isRetry' = FALSE
            /\ OperationFails("combo")
            /\ UNCHANGED <<ti, phase, di, ri, served, rosterFailed, apiKey, endpoint,
                           regenVars>>
     ELSE IF ~forceAll /\ need = "no"
       THEN \* continue
            /\ cached' = file
            /\ decision' = "skip"
            /\ isRetry' = FALSE
            /\ AdvanceCombo
            /\ UNCHANGED <<served, rosterFailed, apiKey, endpoint, regenVars>>
     ELSE /\ cached' = file
          /\ decision' = "regen"
          /\ isRetry' = (file # Null /\ HasCacheErrors(file))
          /\ stage' = "regen"
          /\ \E roster \in RosterOutcomes :
               LET n == FetchesNeeded(RowsOrEmpty(roster), PriorArgument(file)) IN
               /\ served + n <= MaxFetches
               /\ served' = served + n
               /\ rosterFailed' = ~roster.ok
               /\ apiKey' = ApiKeyOf(tenants[ti].id, RunAllKeyKind)
               /\ endpoint' = tenants[ti].id
               /\ PrecalculateStart(CurrentSubject, RANGES[ri],
                                    RowsOrEmpty(roster), PriorArgument(file))
          /\ UNCHANGED <<op, passStatus, failCause, ti, phase, di, ri>>
  /\ UNCHANGED <<cache, lastOp, forceAll, tenants, keys, departments, items,
                 ii, results, deleted, activeIds, reached, expected, ops, now,
                 clientVars>>

\* A caller that goes on to the next iteration without awaiting the call.
ComboFinishNoAwait ==
  /\ op = "runAll"
  /\ stage = "regen"
  /\ cache' = IF regenOut # Null
                THEN [cache EXCEPT ![CurrentKey] = regenOut]
                ELSE cache
  /\ AdvanceCombo
  /\ ResetRegen
  /\ rosterFailed' = FALSE
  /\ apiKey' = NoCredential
  /\ endpoint' = 0
  /\ UNCHANGED <<lastOp, forceAll, tenants, keys, departments, cached,
                 decision, isRetry, items, ii, results, deleted, activeIds,
                 reached, expected, processed, served, ops, now, clientVars>>

\* if (data) saveToCache(...); then the next iteration
ComboFinish ==
  /\ op = "runAll"
  /\ stage = "regen"
  /\ rpc = "done"
  /\ cache' = IF regenOut # Null
                THEN [cache EXCEPT ![CurrentKey] = regenOut]
                ELSE cache
  /\ AdvanceCombo
  /\ ResetRegen
  /\ rosterFailed' = FALSE
  /\ apiKey' = NoCredential
  /\ endpoint' = 0
  /\ UNCHANGED <<lastOp, forceAll, tenants, keys, departments, cached,
                 decision, isRetry, items, ii, results, deleted, activeIds,
                 reached, expected, processed, served, ops, now, clientVars>>

\* One iteration of the roster loop inside an operation
OpReuse ==
  /\ op # "idle"
  /\ stage = "regen"
  /\ PrecalcReuse
  /\ UNCHANGED <<orchVars, now, clientVars>>

OpFetch ==
  /\ op # "idle"
  /\ stage = "regen"
  /\ \E res \in FetchResults : PrecalcFetch(res)
  /\ UNCHANGED <<orchVars, now, clientVars>>

(***************************************************************************)
(* SpecRegen: one Regenerator invocation after another, for every roster   *)
(* and every prior entry within the bounds                                 *)
(***************************************************************************)
MaxUsers == 3

UserIds == 1..MaxUsers

\* Rosters: lists of distinct ids
Rosters ==
  UNION {{r \in [1..n -> UserIds] : \A i, j \in 1..n : r[i] = r[j] => i = j} :
         n \in 0..MaxUsers}

\* What a prior entry holds for one id: nothing, a success, a done body
\* without metrics, or an error.
PriorKinds == {"absent", "M1", "noMetrics", "error"}

PriorResult(kind) ==
  IF kind = "error" THEN ErrorResult(MsgApiError) ELSE ApiDataResult(kind)

\* The records of a prior entry, in id order, from a choice of kind per id.
RECURSIVE PriorRecords(_, _)
PriorRecords(kinds, n) ==
  IF n = 0 THEN <<>>
  ELSE LET before == PriorRecords(kinds, n - 1)
       IN IF kinds[n] = "absent" THEN before
          ELSE Append(before, ResultRecord(Len(before) + 1, n, PriorResult(kinds[n])))

\* Records a prior entry may carry besides: a success without its record
\* property, and a second record of id 1 (an id listed twice).
OrphanSuccess(index) ==
  [recordIndex |-> index, record |-> <<>>, apiData |-> "M1", error |-> Undefined]

PriorExtras == {"none", "orphan", "dupSuccess", "dupError"}

PriorList(kinds, extra) ==
  LET base == PriorRecords(kinds, MaxUsers)
  IN CASE extra = "none" -> base
       [] extra = "orphan" -> Append(base, OrphanSuccess(Len(base) + 1))
       [] extra = "dupSuccess" ->
            Append(base, ResultRecord(Len(base) + 1, 1, ApiDataResult("M2")))
       [] extra = "dupError" ->
            Append(base, ResultRecord(Len(base) + 1, 1, ErrorResult(MsgApiError)))

PriorLists == {PriorList(kinds, extra) : kinds \in [UserIds -> PriorKinds], extra \in PriorExtras}

PriorEntryOf(dept, rng, at, resps) ==
  CacheEntry(dept, rng, at, Len(resps), resps)

NoListEntry(dept, rng, at) ==
  [kind |-> "entry", department |-> dept, range |-> rng, generatedAt |-> at,
   totalRecords |-> 0, hasList |-> FALSE, apiResponses |-> <<>>]

RegenInvoke ==
  /\ rpc = "idle"
  /\ \E roster \in Rosters, dept \in {"Sales"} :
       \/ PrecalculateStart(dept, "lastWeek", roster, Null)
       \/ PrecalculateStart(dept, "lastWeek", roster, NoListEntry(dept, "lastWeek", now))
       \/ \E shapes \in PriorLists :
            PrecalculateStart(dept, "lastWeek", roster,
                              PriorEntryOf(dept, "lastWeek", now, shapes))

\* The caller takes the returned value; the locals of the invocation are gone.
RegenReturn ==
  /\ rpc = "done"
  /\ rpc' = "idle"
  /\ department' = "none"
  /\ rangeName' = "none"
  /\ users' = <<>>
  /\ existingCache' = Null
  /\ idx' = 1
  /\ apiResponses' = <<>>
  /\ calls' = <<>>
  /\ regenOut' = Null

NextRegen ==
  \/ RegenInvoke
  \/ PrecalcReuse
  \/ \E res \in FetchResults : PrecalcFetch(res)
  \/ RegenReturn

(***************************************************************************)
(* regenerateSpecific                                                      *)
(***************************************************************************)
\* db.getTenantById(tenantId): SELECT * FROM tenants WHERE id = $1, rows[0];
\* the row is returned whatever its is_active column holds
TenantByIdOutcomes(tenantId) ==
  {[ok |-> TRUE, row |-> TRUE, tenant |-> TenantRow(tenantId)],
   [ok |-> TRUE, row |-> FALSE, tenant |-> TenantRow(tenantId)],
   [ok |-> FALSE, row |-> FALSE, tenant |-> TenantRow(tenantId)]}

Items == {[department |-> d, range |-> RANGES[r]] :
            d \in {"Sales", "individuals"}, r \in DOMAIN RANGES}

ItemLists == UNION {[1..n -> Items] : n \in 0..MaxItems}

ItemKey == CacheKey(tenants[1].slug, items[ii].department, items[ii].range)

\* The existingCache argument of the two precalculate calls: the literal null
SelectivePriorReusesDeleted(file) == IF file = Corrupt THEN Null ELSE file
SelectivePrior(file) == Null

\* for (const [idx, item] of items.entries()): the next item, or return results
GotoItem(list, n) ==
  IF n <= Len(list)
    THEN /\ op' = "selective"
         /\ stage' = "item"
         /\ passStatus' = "running"
         /\ failCause' = "none"
         /\ ii' = n
    ELSE /\ OperationCompletes
         /\ ii' = n

StartSelective(tenantId) ==
  /\ op = "idle"
  /\ ops < MaxOps
  /\ ops' = ops + 1
  /\ lastOp' = "selective"
  /\ forceAll' = FALSE
  /\ reached' = {}
  /\ expected' = {}
  /\ processed' = {}
  /\ cached' = Null
  /\ decision' = "none"
  /\ isRetry' = FALSE
  /\ departments' = <<>>
  /\ phase' = "dept"
  /\ di' = 1
  /\ ri' = 1
  /\ ti' = 1
  /\ results' = <<>>
  /\ deleted' = Null
  /\ rosterFailed' = FALSE
  /\ apiKey' = NoCredential
  /\ endpoint' = 0
  /\ \E t \in TenantByIdOutcomes(tenantId), k \in TenantKeysOutcomes,
        active \in BOOLEAN :
       \* is_active of the requested tenant; no query of this path reads it
       /\ activeIds' = IF active THEN {1, 2} ELSE {1, 2} \ {tenantId}
       /\ IF t.ok /\ t.row /\ k.ok /\ k.row /\ k.front
         THEN /\ tenants' = <<t.tenant>>
              /\ keys' = k
              /\ \E list \in ItemLists :
                   /\ items' = list
                   /\ GotoItem(list, 1)
         ELSE \* a rejected query, 'Tenant not found' or 'No Front API key'
              /\ tenants' = <<>>
              /\ keys' = NoKeys
              /\ items' = <<>>
              /\ ii' = 1
              /\ OperationFails("selective")
  /\ UNCHANGED <<cache, served, now, clientVars, regenVars>>

\* A path that hands the department credential to both functions.
SelectiveKeyKindAlwaysDepartment == "department"

\* if (department === 'individuals') ... apiKeyIndividuals ... else ... apiKey
SelectiveKeyKind ==
  IF items[ii].department = "individuals" THEN "individuals" ELSE "department"

ItemResult(status) ==
  [department |-> items[ii].department, range |-> items[ii].range, status |-> status]

\* Head of one item: unlink the file, then the precalculate call up to its
\* roster read
ItemStep ==
  /\ op = "selective"
  /\ stage = "item"
  /\ deleted' = cache[ItemKey]
  /\ cache' = [cache EXCEPT ![ItemKey] = Null]
  /\ IF items[ii].department = "individuals" /\ ~keys.indiv
       THEN \* results.push({status: 'error', ...}); continue
            /\ results' = Append(results, ItemResult("error"))
            /\ GotoItem(items, ii + 1)
            /\ UNCHANGED <<served, rosterFailed, apiKey, endpoint, regenVars>>
       ELSE /\ stage' = "regen"
            /\ \E roster \in RosterOutcomes :
                 LET n == FetchesNeeded(RowsOrEmpty(roster), SelectivePrior(cache[ItemKey])) IN
                 /\ served + n <= MaxFetches
                 /\ served' = served + n
                 /\ rosterFailed' = ~roster.ok
                 /\ apiKey' = ApiKeyOf(tenants[1].id, SelectiveKeyKind)
                 /\ endpoint' = tenants[1].id
                 /\ PrecalculateStart(items[ii].department, items[ii].range,
                                      RowsOrEmpty(roster), SelectivePrior(cache[ItemKey]))
            /\ UNCHANGED <<op, passStatus, failCause, ii, results>>
  /\ UNCHANGED <<lastOp, forceAll, tenants, ti, keys, departments, phase, di,
                 ri, cached, decision, isRetry, items, activeIds, reached,
                 expected, processed, ops, now, clientVars>>

\* data.apiResponses.filter(r => r.error).length
ErrorCount(entry) ==
  Cardinality({k \in DOMAIN entry.apiResponses : entry.apiResponses[k].error # Undefined})

ItemStatus(entry) ==
  IF entry = Null THEN "error"
  ELSE IF ErrorCount(entry) = 0 THEN "success"
  ELSE IF ErrorCount(entry) < entry.totalRecords THEN "partial"
  ELSE "error"

\* if (data) { saveToCache(...); results.push(...) } else results.push(error)
ItemFinish ==
  /\ op = "selective"
  /\ stage = "regen"
  /\ rpc = "done"
  /\ cache' = IF regenOut # Null
                THEN [cache EXCEPT ![ItemKey] = regenOut]
                ELSE cache
  /\ results' = Append(results, ItemResult(ItemStatus(regenOut)))
  /\ GotoItem(items, ii + 1)
  /\ ResetRegen
  /\ rosterFailed' = FALSE
  /\ apiKey' = NoCredential
  /\ endpoint' = 0
  /\ UNCHANGED <<lastOp, forceAll, tenants, ti, keys, departments, phase, di,
                 ri, cached, decision, isRetry, items, deleted, activeIds,
                 reached, expected, processed, served, ops, now, clientVars>>

(***************************************************************************)
(* Spec: operations of the engine on a cache directory                     *)
(***************************************************************************)
\* The instant of the run: 2025-01-15 12:00Z (Jan 15, 07:00 in New York)
NowValues == {(14 * MinutesPerDay) + 720}

\* generatedAt of the files found at start: 2025-01-15 02:00Z (still Jan 14 in
\* New York) and 06:40Z (Jan 15 in New York)
GenTimes == {(14 * MinutesPerDay) + 120, (14 * MinutesPerDay) + 400}

Subjects == {"Sales", "individuals"}

AllKeys == {CacheKey(TenantRow(n).slug, d, RANGES[r]) :
              n \in {1, 2}, d \in Subjects, r \in DOMAIN RANGES}

\* Files a key can hold before the engine runs: an entry written by an earlier
\* run for a roster of ids 1..2, a document without apiResponses, or bytes
\* that are not JSON.
FilesAtStart(d, rng) ==
  {PriorEntryOf(d, rng, at, PriorRecords(kinds, 2)) :
     at \in GenTimes, kinds \in [1..2 -> PriorKinds]}
  \cup {NoListEntry(d, rng, at) : at \in GenTimes}
  \cup {Corrupt}

EmptyCache == [k \in AllKeys |-> Null]

\* At most one file exists at start, under the first tenant.
CachesAtStart ==
  {EmptyCache} \cup
  UNION {{[EmptyCache EXCEPT ![CacheKey(TenantRow(n).slug, d, RANGES[r])] = f] :
            f \in FilesAtStart(d, RANGES[r])} :
         n \in {1}, d \in Subjects, r \in DOMAIN RANGES}

InitOrch ==
  /\ op = "idle"
  /\ lastOp = "none"
  /\ stage = "none"
  /\ forceAll = FALSE
  /\ tenants = <<>>
  /\ ti = 1
  /\ keys = NoKeys
  /\ departments = <<>>
  /\ phase = "dept"
  /\ di = 1
  /\ ri = 1
  /\ cached = Null
  /\ decision = "none"
  /\ isRetry = FALSE
  /\ items = <<>>
  /\ ii = 1
  /\ results = <<>>
  /\ deleted = Null
  /\ rosterFailed = FALSE
  /\ apiKey = NoCredential
  /\ endpoint = 0
  /\ activeIds = {}
  /\ passStatus = "none"
  /\ failCause = "none"
  /\ reached = {}
  /\ expected = {}
  /\ processed = {}
  /\ served = 0
  /\ ops = 0

\* The process before scheduleJobs() is called
InitSched ==
  /\ alive = TRUE
  /\ started = FALSE
  /\ startedAt = 0
  /\ nextCheck = 0
  /\ schedDays = <<>>
  /\ inFlight = 0
  /\ unhandled = 0

\* The passes a server process can have in flight at once: the Scheduler's,
\* the one of POST /api/cache/regenerate, the one of POST
\* /api/cache/delete-and-sync
Workers == {"scheduled", "manual", "selective"}
HttpWorkers == {"manual", "selective"}

\* Who reads a cache file: readFromCache in this process, GET /getCachedData
\* in this process, and a second process on the same cache directory
Readers == {"orchestrator", "http", "external"}

\* The keys every pass goes through, in the order of its loops
WorkKeys == <<CacheKey("acme", "Sales", "lastWeek"), CacheKey("acme", "Sales", "lastMonth")>>

\* A file as bytes on disk: absent, complete (by: the pass that wrote it), or
\* partial (opened and truncated by writeFileSync, not all bytes written yet)
\* old: records of a file found at start were copied into it (a partial
\* repair that had such a file, or a copy of it, as existingCache)
NoFile == [state |-> "absent", by |-> "none", old |-> FALSE]
PartialFile(w) == [state |-> "partial", by |-> w, old |-> FALSE]
CompleteFile(w) == [state |-> "complete", by |-> w, old |-> FALSE]
MergedFile(w) == [state |-> "complete", by |-> w, old |-> TRUE]

\* The file is one found at start, or holds records copied from one.
HoldsOldRecords(f) == f.state = "complete" /\ (f.by = "earlier" \/ f.old)

\* No pass in flight; the files are those of an earlier run, or none
InitServer ==
  /\ wstate = [w \in Workers |-> "idle"]
  /\ wpos = [w \in Workers |-> 1]
  /\ worked = [w \in Workers |-> FALSE]
  /\ response = [w \in Workers |-> "none"]
  /\ disk \in {[k \in DOMAIN WorkKeys |-> f] : f \in {NoFile, CompleteFile("earlier")}}
  /\ writing = "none"
  /\ lastRead = [r \in Readers |-> NoFile]
  /\ reusesOld = [w \in Workers |-> FALSE]

Init ==
  /\ InitClient
  /\ InitRegen
  /\ InitOrch
  /\ InitSched
  /\ InitServer
  /\ InitRange
  /\ disk = [k \in DOMAIN WorkKeys |-> NoFile]
  /\ now \in NowValues
  /\ cache \in CachesAtStart

\* The engine's operations leave the Scheduler's process state alone.
EngineOnly == UNCHANGED <<schedVars, serverVars, rangeVars>>

Next ==
  \/ \E force \in BOOLEAN : StartRunAll(force) /\ EngineOnly
  \/ TenantStep /\ EngineOnly
  \/ ComboStep /\ EngineOnly
  \/ ComboFinish /\ EngineOnly
  \/ OpReuse /\ EngineOnly
  \/ OpFetch /\ EngineOnly
  \/ \E tenantId \in {1, 2} : StartSelective(tenantId) /\ EngineOnly
  \/ ItemStep /\ EngineOnly
  \/ ItemFinish /\ EngineOnly

Spec == Init /\ [][Next]_vars

\* The engine at rest on an empty cache directory
InitAtRest ==
  /\ InitClient
  /\ InitRegen
  /\ InitOrch
  /\ InitSched
  /\ InitServer
  /\ InitRange
  /\ now = 0
  /\ cache = EmptyCache

ClientOnly == UNCHANGED <<now, regenVars, orchVars, schedVars, serverVars, rangeVars>>

NextClientOnly ==
  \/ CallStart /\ ClientOnly
  \/ \E hint \in Hints : RateLimited(hint) /\ ClientOnly
  \/ RateLimitedBadBody /\ ClientOnly
  \/ HardFailure /\ ClientOnly
  \/ NetworkFailure /\ ClientOnly
  \/ BadJson /\ ClientOnly
  \/ \E payload \in DonePayloads : Done(payload) /\ ClientOnly
  \/ \E status \in NotDoneStatuses : NotDone(status) /\ ClientOnly
  \/ CallReturn /\ ClientOnly

SpecClient == InitAtRest /\ [][NextClientOnly]_vars

RegenOnly == UNCHANGED <<clientVars, now, orchVars, schedVars, serverVars, rangeVars>>

NextRegenOnly ==
  \/ RegenInvoke /\ RegenOnly
  \/ PrecalcReuse /\ RegenOnly
  \/ \E res \in FetchResults : PrecalcFetch(res) /\ RegenOnly
  \/ RegenReturn /\ RegenOnly

SpecRegen == InitAtRest /\ [][NextRegenOnly]_vars

\* getDateRange evaluated once, on any day
InitAnyDay ==
  /\ InitClient
  /\ InitRegen
  /\ InitOrch
  /\ InitSched
  /\ InitServer
  /\ InitRange
  /\ disk = [k \in DOMAIN WorkKeys |-> NoFile]
  /\ cache = EmptyCache
  /\ now \in RangeInstants

RangeOnly == UNCHANGED <<clientVars, regenVars, orchVars, schedVars, serverVars>>

NextRangeOnly ==
  \/ GetLastWeek /\ RangeOnly
  \/ GetLastMonth /\ RangeOnly
  \/ GetLastQuarter /\ RangeOnly
  \/ \E name \in UnknownRanges : GetUnknownRange(name) /\ RangeOnly

SpecRange == InitAnyDay /\ [][NextRangeOnly]_vars

(***************************************************************************)
(* scheduleJobs: the hourly check of the process that runs the Scheduler   *)
(***************************************************************************)
MinutesPerHour == 60
MsPerMinute == 60 * 1000

\* const checkInterval = 60 * 60 * 1000, in minutes
CheckIntervalOneMinute == (60 * 1000) \div MsPerMinute
CheckIntervalMinutes == (60 * 60 * 1000) \div MsPerMinute

\* if (hourET === 6 && minuteET < 5)
TriggerHourET == 6
TriggerWindowMinutes == 5

\* Intl.DateTimeFormat('en-US', {timeZone: TIMEZONE, hour: '2-digit',
\* hour12: false}) and {minute: '2-digit'} of an instant
HourET(t) == ((t - EtOffsetAt(t)) % MinutesPerDay) \div MinutesPerHour
MinuteET(t) == (t - EtOffsetAt(t)) % MinutesPerHour

ShouldTrigger(t) == HourET(t) = TriggerHourET /\ MinuteET(t) < TriggerWindowMinutes

\* Minutes by which a timer callback can run late
TimerDelays == {0, 1}

\* Days the process is followed for
MaxDays == 2

\* 00:00 in New York of day d, a day of standard time
MidnightET(d) == (d * MinutesPerDay) + EtOffsetMinutes

\* Instants at which the process is started: 15 January 2025 at 05:02, 05:30,
\* 05:58, 06:03 and 14:00 in New York
StartInstants ==
  {MidnightET(14) + m : m \in {302, 330, 358, 363, 840}}

\* How a Node process treats a promise rejection that nothing handles: since
\* Node 15 it throws and the process exits; earlier versions only warn.
UnhandledRejectionModes == {"throw", "warn"}

\* scheduleJobs(): runPrecalculation() at once, then setInterval
ScheduleJobs ==
  /\ alive
  /\ ~started
  /\ started' = TRUE
  /\ startedAt' = now
  /\ inFlight' = inFlight + 1
  /\ \E late \in TimerDelays : nextCheck' = now + CheckIntervalMinutes + late
  /\ UNCHANGED <<alive, schedDays, unhandled, now>>

\* The setInterval callback
HourlyCheck ==
  /\ alive
  /\ started
  /\ nextCheck < startedAt + (MaxDays * MinutesPerDay)
  /\ now' = nextCheck
  /\ IF ShouldTrigger(nextCheck)
       THEN /\ schedDays' = Append(schedDays, EtDay(nextCheck))
            /\ inFlight' = inFlight + 1
       ELSE UNCHANGED <<schedDays, inFlight>>
  /\ \E late \in TimerDelays : nextCheck' = nextCheck + CheckIntervalMinutes + late
  /\ UNCHANGED <<alive, started, startedAt, unhandled>>

\* A pass returns: its promise resolves
PassResolves ==
  /\ alive
  /\ inFlight > 0
  /\ inFlight' = inFlight - 1
  /\ UNCHANGED <<alive, started, startedAt, nextCheck, schedDays, unhandled, now>>

\* A pass fails (db.getActiveTenants() rejects, for one): the promise returned
\* by runPrecalculation() rejects, and scheduleJobs attached no handler to it
PassRejects(mode) ==
  /\ alive
  /\ inFlight > 0
  /\ inFlight' = inFlight - 1
  /\ unhandled' = unhandled + 1
  /\ alive' = (mode = "warn")
  /\ UNCHANGED <<started, startedAt, nextCheck, schedDays, now>>

InitProcessStart ==
  /\ InitClient
  /\ InitRegen
  /\ InitOrch
  /\ InitSched
  /\ InitServer
  /\ InitRange
  /\ cache = EmptyCache
  /\ now \in StartInstants

SchedOnly == UNCHANGED <<clientVars, regenVars, orchVars, serverVars, rangeVars>>

NextSchedOnly ==
  \/ ScheduleJobs /\ SchedOnly
  \/ HourlyCheck /\ SchedOnly
  \/ PassResolves /\ SchedOnly
  \/ \E mode \in UnhandledRejectionModes : PassRejects(mode) /\ SchedOnly

SpecSched == InitProcessStart /\ [][NextSchedOnly]_vars

(***************************************************************************)
(* Properties of the Scheduler (SpecSched)                                 *)
(***************************************************************************)
\* C11: a failure of a pass the Scheduler started is handled by the Scheduler:
\* it never becomes an unhandled error and never ends the process.
C11_PassFailureHandled == started => (alive /\ unhandled = 0)

\* The process ran through the whole 06:00 hour of New York day d.
AliveThroughTriggerHour(d) ==
  /\ started
  /\ alive
  /\ startedAt <= MidnightET(d) + (TriggerHourET * MinutesPerHour)
  /\ now >= MidnightET(d) + ((TriggerHourET + 1) * MinutesPerHour)

ScheduledOn(d) == \E i \in DOMAIN schedDays : schedDays[i] = d

\* C12: whenever the process was started, on each day it stays alive through
\* the trigger hour a scheduled run has been triggered during that hour.
C12_DailyTrigger ==
  \A d \in 14..(14 + MaxDays) : AliveThroughTriggerHour(d) => ScheduledOn(d)

\* C13: the hourly check triggers at most one scheduled run on any New York
\* calendar day.
C13_NoDoubleFire ==
  \A i, j \in DOMAIN schedDays : schedDays[i] = schedDays[j] => i = j

\* Two scheduled runs were triggered, on two days, by the checks of a process
\* started at 05:02.
C13_Witness ==
  /\ Len(schedDays) = 2
  /\ MinuteET(startedAt) = 2
  /\ now > nextCheck - (2 * CheckIntervalMinutes)


(***************************************************************************)
(* The server process: the Scheduler's pass and the passes of the HTTP     *)
(* triggers (POST /api/cache/regenerate, POST /api/cache/delete-and-sync)  *)
(* run on one JavaScript thread and interleave at every await.             *)
(***************************************************************************)
\* The thread is free: no synchronous call (writeFileSync) is in progress.
ThreadFree == writing = "none"

\* The key a pass is at
KeyAt(w) == wpos[w]

\* for (...) loops: the next key, or the end of the pass
MoveOn(w) ==
  /\ wpos' = [wpos EXCEPT ![w] = wpos[w] + 1]
  /\ wstate' = [wstate EXCEPT ![w] =
                  IF wpos[w] + 1 <= Len(WorkKeys) THEN "running" ELSE "finished"]
  /\ reusesOld' = [reusesOld EXCEPT ![w] = FALSE]

\* scheduleJobs: runPrecalculation() is called with nothing waiting for it
SchedulerStarts ==
  /\ ThreadFree
  /\ wstate["scheduled"] = "idle"
  /\ wstate' = [wstate EXCEPT !["scheduled"] = "running"]
  /\ UNCHANGED <<wpos, worked, response, disk, writing, lastRead, reusesOld>>

\* The two POST handlers: res.json({ message }) and then the call of
\* runPrecalculation / regenerateSpecific, whose promise only gets .then and
\* .catch; the call runs up to its first await (a Directory query)
HttpTriggerAwaitsWork(w) ==
  /\ ThreadFree
  /\ wstate[w] = "idle"
  /\ wstate' = [wstate EXCEPT ![w] = "running"]
  /\ UNCHANGED <<wpos, worked, response, disk, writing, lastRead, reusesOld>>
HttpTrigger(w) ==
  /\ ThreadFree
  /\ wstate[w] = "idle"
  /\ response' = [response EXCEPT ![w] = "ack"]
  /\ wstate' = [wstate EXCEPT ![w] = "running"]
  /\ UNCHANGED <<wpos, worked, disk, writing, lastRead, reusesOld>>

\* POST /api/cache/delete-and-sync: return res.status(400) for a request
\* without tenant or with a bad items array; no work is started
HttpRefuses ==
  /\ ThreadFree
  /\ wstate["selective"] = "idle"
  /\ response' = [response EXCEPT !["selective"] = "400"]
  /\ wstate' = [wstate EXCEPT !["selective"] = "refused"]
  /\ UNCHANGED <<wpos, worked, disk, writing, lastRead, reusesOld>>

\* runPrecalculation at a key: readFromCache, then needsUpdate says skip
RunAllSkips(w) ==
  /\ ThreadFree
  /\ w # "selective"
  /\ wstate[w] = "running"
  /\ disk[KeyAt(w)].state = "complete"
  /\ lastRead' = [lastRead EXCEPT !["orchestrator"] = disk[KeyAt(w)]]
  /\ MoveOn(w)
  /\ UNCHANGED <<worked, response, disk, writing>>

\* A pass begins a key: runPrecalculation reads the file and goes on to await
\* precalculate...; regenerateSpecific unlinks the file and does the same
BeginKey(w) ==
  /\ ThreadFree
  /\ wstate[w] = "running"
  /\ wstate' = [wstate EXCEPT ![w] = "inprogress"]
  /\ IF w = "selective"
       THEN \* the existingCache argument is the literal null
            /\ disk' = [disk EXCEPT ![KeyAt(w)] = NoFile]
            /\ worked' = [worked EXCEPT ![w] = TRUE]
            /\ UNCHANGED <<lastRead, reusesOld>>
       ELSE \* isRetry ? cached : null, for the file just read
            /\ lastRead' = [lastRead EXCEPT !["orchestrator"] = disk[KeyAt(w)]]
            /\ \E reuse \in {FALSE, HoldsOldRecords(disk[KeyAt(w)])} :
                 reusesOld' = [reusesOld EXCEPT ![w] = reuse]
            /\ UNCHANGED <<disk, worked>>
  /\ UNCHANGED <<wpos, response, writing>>

\* await precalculateDepartment(...) returns an entry: the roster was read and
\* the provider calls were made
Computed(w) ==
  /\ ThreadFree
  /\ wstate[w] = "inprogress"
  /\ wstate' = [wstate EXCEPT ![w] = "computed"]
  /\ worked' = [worked EXCEPT ![w] = TRUE]
  /\ UNCHANGED <<wpos, response, disk, writing, lastRead, reusesOld>>

\* await precalculateDepartment(...) returns null (empty roster) or throws
\* inside the try: nothing is written
NothingToWrite(w) ==
  /\ ThreadFree
  /\ wstate[w] = "inprogress"
  /\ MoveOn(w)
  /\ UNCHANGED <<worked, response, disk, writing, lastRead>>

\* saveToCache: fs.writeFileSync opens the file truncating it ...
WriteOpen(w) ==
  /\ ThreadFree
  /\ wstate[w] = "computed"
  /\ wstate' = [wstate EXCEPT ![w] = "writing"]
  /\ writing' = w
  /\ disk' = [disk EXCEPT ![KeyAt(w)] = PartialFile(w)]
  /\ UNCHANGED <<wpos, worked, response, lastRead, reusesOld>>

\* ... and returns once every byte is written
WriteClose(w) ==
  /\ writing = w
  /\ writing' = "none"
  /\ disk' = [disk EXCEPT ![KeyAt(w)] =
                IF reusesOld[w] THEN MergedFile(w) ELSE CompleteFile(w)]
  /\ MoveOn(w)
  /\ UNCHANGED <<worked, response, lastRead>>

\* The promise of the pass rejects (a Directory query fails, a cache file does
\* not parse)
WorkFails(w) ==
  /\ ThreadFree
  /\ wstate[w] = "running"
  /\ wstate' = [wstate EXCEPT ![w] = "failed"]
  /\ UNCHANGED <<wpos, worked, response, disk, writing, lastRead, reusesOld>>

\* GET /getCachedData: existsSync and readFileSync on this thread
HttpGet(k) ==
  /\ ThreadFree
  /\ lastRead' = [lastRead EXCEPT !["http"] = disk[k]]
  /\ UNCHANGED <<wstate, wpos, worked, response, disk, writing, reusesOld>>

\* A second process on the same cache directory (node cache-scheduler.js, a
\* second server) reads a file: it does not share this process's thread
ExternalGet(k) ==
  /\ lastRead' = [lastRead EXCEPT !["external"] = disk[k]]
  /\ UNCHANGED <<wstate, wpos, worked, response, disk, writing, reusesOld>>

ServerOnly == UNCHANGED <<clientVars, now, regenVars, orchVars, schedVars, rangeVars>>

NextServerOnly ==
  \/ SchedulerStarts /\ ServerOnly
  \/ \E w \in HttpWorkers : HttpTrigger(w) /\ ServerOnly
  \/ HttpRefuses /\ ServerOnly
  \/ \E w \in Workers : RunAllSkips(w) /\ ServerOnly
  \/ \E w \in Workers : BeginKey(w) /\ ServerOnly
  \/ \E w \in Workers : Computed(w) /\ ServerOnly
  \/ \E w \in Workers : NothingToWrite(w) /\ ServerOnly
  \/ \E w \in Workers : WriteOpen(w) /\ ServerOnly
  \/ \E w \in Workers : WriteClose(w) /\ ServerOnly
  \/ \E w \in Workers : WorkFails(w) /\ ServerOnly
  \/ \E k \in DOMAIN WorkKeys : HttpGet(k) /\ ServerOnly
  \/ \E k \in DOMAIN WorkKeys : ExternalGet(k) /\ ServerOnly

SpecServer == InitAtRest /\ [][NextServerOnly]_vars

(***************************************************************************)
(* Properties of the server process (SpecServer)                           *)
(***************************************************************************)
\* A regeneration of the key is in progress: the pass has read or deleted the
\* existing entry and has not finished (or given up) writing the new one.
InProgress(w) == wstate[w] \in {"inprogress", "computed", "writing"}

\* C14: at no time are two regenerations in progress for the same key.
C14_SerializedPerKey ==
  \A w1, w2 \in Workers :
    (w1 # w2 /\ InProgress(w1) /\ InProgress(w2)) => KeyAt(w1) # KeyAt(w2)

\* C15: every read of a key returns a complete entry (or none), never a
\* partially written one, whoever reads.
C15_AtomicPut == \A r \in Readers : lastRead[r].state # "partial"

\* What holds of the reads made on the thread that also makes the writes.
InProcessReadsAreWhole ==
  \A r \in {"orchestrator", "http"} : lastRead[r].state # "partial"

\* C16: an on-demand trigger has answered its caller before the work it
\* triggers is started and before any step of that work completes, and the
\* answer, once given, does not change with the outcome of the work.
C16_AckBeforeWork ==
  /\ [](\A w \in HttpWorkers :
          (wstate[w] \notin {"idle", "refused"} \/ worked[w]) => response[w] = "ack")
  /\ [][\A w \in HttpWorkers :
          response[w] # "none" => response'[w] = response[w]]_vars

\* The selective resync wrote its last key and the on-demand pass failed;
\* both callers hold the acknowledgment they got at the start.
C16_Witness ==
  /\ wstate["selective"] = "finished"
  /\ disk[Len(WorkKeys)] = CompleteFile("selective")
  /\ wstate["manual"] = "failed"
  /\ response["selective"] = "ack"
  /\ response["manual"] = "ack"


(***************************************************************************)
(* Properties of callFrontApi (SpecClient)                                 *)
(***************************************************************************)
\* Every response of the current call so far was a 2xx body with a status
\* other than 'done'.
OnlyPendingAnswers == n429 = 0 /\ nPending = requests /\ requests > 0

\* C1: against a provider that answers every request with a non-done status
\* the call returns the error 'Max retries reached' after exactly maxRetries
\* (25) requests: it never returns earlier and never issues a 26th request.
C1_MaxRetriesExactly ==
  /\ requests <= 25
  /\ (cpc = "done" /\ OnlyPendingAnswers) =>
       /\ result = ErrorResult(MsgMaxRetries)
       /\ requests = 25
  /\ (cpc = "loop" /\ OnlyPendingAnswers) => requests < 25

C1_Witness ==
  /\ cpc = "done"
  /\ OnlyPendingAnswers
  /\ requests = 25
  /\ result = ErrorResult(MsgMaxRetries)

\* The provider answered 'pending' twice and then 'done' with metrics.
PendingTwiceThenDone ==
  /\ cpc = "done"
  /\ lastResp = "done"
  /\ lastPayload \in MetricsTags
  /\ nPending = 2
  /\ n429 = 0

\* C2: pending, pending, done gives a success result after exactly three
\* requests and exactly two backoff waits, within the retry budget.
C2_PendingTwiceThenDone ==
  PendingTwiceThenDone =>
    /\ result = ApiDataResult(lastPayload)
    /\ requests = 3
    /\ backoffWaits = 2
    /\ rateWaits = 0
    /\ retries <= maxRetries

C2_Witness ==
  /\ PendingTwiceThenDone
  /\ requests = 3
  /\ backoffWaits = 2

\* A ResultRecord is a success when it carries the metrics triple, a failure
\* when it carries an error string.
IsSuccessPayload(r) == r.apiData \in MetricsTags
HasErrorString(r) == r.error # Undefined

\* C3: every call ends with a result that holds either the metrics triple or
\* an error string, never both and never neither.
C3_ExactlyOneOutcome ==
  cpc = "done" => (IsSuccessPayload(result) # HasErrorString(result))

(***************************************************************************)
(* Properties of the Regenerator (SpecRegen)                               *)
(***************************************************************************)
\* The ids that have a success (a record with the metrics triple) in an entry.
PriorSuccessIds(existing) ==
  IF existing = Null \/ ~existing.hasList THEN {}
  ELSE {id \in UserIds :
          \E j \in DOMAIN existing.apiResponses :
            /\ IsSuccessPayload(existing.apiResponses[j])
            /\ existing.apiResponses[j].record = <<id>>}

\* The prior success records of one id.
PriorSuccessesOf(existing, id) ==
  {existing.apiResponses[j] : j \in
     {k \in DOMAIN existing.apiResponses :
        /\ IsSuccessPayload(existing.apiResponses[k])
        /\ existing.apiResponses[k].record = <<id>>}}

IsAbsentOrFailed(id) == id \notin PriorSuccessIds(existingCache)

\* C4: with a prior entry, the calls issued are exactly the roster records
\* (in roster order) whose id is absent from the prior entry or present only
\* as a failure; every roster record with a prior success appears at its
\* roster position in the new entry, equal to a prior success record of that
\* id, and the new entry has one ResultRecord per roster record.
C4_PartialRepair ==
  (rpc \in {"loop", "done"} /\ existingCache # Null /\ Len(users) > 0) =>
    /\ calls = SelectSeq(SubSeq(users, 1, idx - 1), IsAbsentOrFailed)
    /\ \A i \in 1..(idx - 1) :
         IF users[i] \in PriorSuccessIds(existingCache)
           THEN apiResponses[i] \in PriorSuccessesOf(existingCache, users[i])
           ELSE apiResponses[i].record = <<users[i]>> /\ apiResponses[i].recordIndex = i
    /\ rpc = "done" =>
         /\ idx = Len(users) + 1
         /\ regenOut.kind = "entry"
         /\ regenOut.apiResponses = apiResponses
         /\ Len(regenOut.apiResponses) = Len(users)

\* Three roster records, two with a prior success and one with a prior error:
\* exactly one call, for the failed one.
C4_Witness ==
  /\ rpc = "done"
  /\ existingCache # Null
  /\ Len(users) = 3
  /\ Cardinality({i \in 1..3 : users[i] \in PriorSuccessIds(existingCache)}) = 2
  /\ Len(calls) = 1
  /\ \E j \in DOMAIN existingCache.apiResponses :
       /\ existingCache.apiResponses[j].record = <<calls[1]>>
       /\ HasErrorString(existingCache.apiResponses[j])
  /\ Len(regenOut.apiResponses) = 3

(***************************************************************************)
(* Properties of the Orchestrator and of the selective resync (Spec)       *)
(***************************************************************************)
\* An entry contains an error ResultRecord, as the policy reads one: a record
\* that is not a success.
HasErrorRecord(c) ==
  \E k \in DOMAIN c.apiResponses : ~IsSuccessPayload(c.apiResponses[k])

\* The entry was generated on another New York calendar date than today's.
GeneratedOnOtherDate(c) == EtDay(c.generatedAt) # EtDay(now)

\* What the staleness policy is to answer for the document read.
PolicyAnswer(c) ==
  IF c = Null \/ HasErrorRecord(c) \/ GeneratedOnOtherDate(c)
    THEN "regen" ELSE "skip"

\* A runAll(false) iteration has read a document and applied the policy to it.
PolicyApplied ==
  /\ lastOp = "runAll"
  /\ ~forceAll
  /\ decision # "none"
  /\ cached # Corrupt

\* C5: the staleness policy answers 'needs regeneration' exactly for an absent
\* entry, an entry with at least one error ResultRecord, or an entry generated
\* on another business-timezone date than today's, and 'skip' for every other
\* entry.
C5_StalenessPolicy == PolicyApplied => decision = PolicyAnswer(cached)

\* On the documents that have their ResultRecord list the policy does answer,
\* and answers as stated; a document without the list is the one it throws on.
StalenessPolicyOnListedEntries ==
  PolicyApplied =>
    IF cached = Null \/ cached.hasList
      THEN decision = PolicyAnswer(cached)
      ELSE decision = "threw"

\* The invocation in progress is a full regeneration: with no prior entry
\* nothing is reused, so that when its loop is over every roster record has
\* been fetched.
FullRegeneration == rpc = "done" => calls = users

\* C6: in runAll(false), an entry generated on another business date is
\* regenerated with no prior entry, whatever else it contains.
C6_StaleEntryFullRegen ==
  (/\ op = "runAll"
   /\ ~forceAll
   /\ stage = "regen"
   /\ cached # Null
   /\ GeneratedOnOtherDate(cached)) => FullRegeneration

\* C7: runAll(true) regenerates every key with no prior entry, whatever the
\* existing entry contains.
C7_ForceAllFullRegen ==
  (op = "runAll" /\ forceAll /\ stage = "regen") => FullRegeneration

\* C8: while the selective resync recomputes an item, the file of the item's
\* key is gone (it was deleted before the roster was read and is written only
\* when the recomputation has returned), no prior entry was passed, and every
\* roster record is fetched, in roster order.
C8_SelectiveDeletesThenFull ==
  (op = "selective" /\ stage = "regen") =>
    /\ cache[ItemKey] = Null
    /\ existingCache = Null
    /\ calls = SubSeq(users, 1, idx - 1)
    /\ rpc = "done" => calls = users

\* The deleted entry held a success for the record that is fetched again.
C8_Witness ==
  /\ op = "selective"
  /\ stage = "regen"
  /\ rpc = "done"
  /\ deleted # Null
  /\ deleted # Corrupt
  /\ Len(users) > 0
  /\ calls = users
  /\ \E k \in DOMAIN deleted.apiResponses :
       /\ IsSuccessPayload(deleted.apiResponses[k])
       /\ deleted.apiResponses[k].record = <<users[1]>>

\* A runAll pass is over: it returned, or its promise rejected.
PassOver == lastOp = "runAll" /\ passStatus \in {"complete", "failed"}

\* C9: an error raised while handling one combination never ends the pass:
\* when the pass is over, every combination of the tenants it entered has
\* been handled (unless a Directory failure ended the pass).
C9_CombinationErrorsContained ==
  PassOver =>
    /\ failCause # "combo"
    /\ failCause = "none" => expected \subseteq processed

\* C10: a Directory failure while reading one tenant never ends the pass: when
\* the pass is over (and no combination error ended it), it has completed and
\* entered every active tenant.
C10_DirectoryFailureSkipsTenantOnly ==
  (PassOver /\ failCause \notin {"tenants", "combo"}) =>
    /\ passStatus = "complete"
    /\ \A i \in DOMAIN tenants : tenants[i].id \in reached

(***************************************************************************)
(* Properties of callFrontApi: failures and rate limiting (SpecClient)     *)
(***************************************************************************)
\* The provider's answer to one more request arrives, of one of these kinds.
Answered(kinds) ==
  /\ cpc = "loop"
  /\ requests' = requests + 1
  /\ lastResp' \in kinds

\* The call returns an error result on the spot, without any wait.
ReturnsErrorAtOnce ==
  /\ cpc' = "done"
  /\ result'.error # Undefined
  /\ result'.apiData = Undefined
  /\ rateWaits' = rateWaits
  /\ backoffWaits' = backoffWaits

\* C17: a non-2xx answer other than 429 makes the call return an error result
\* immediately, with no wait, and once the call has returned it issues no
\* further request.
C17_HardFailureImmediate ==
  /\ [][Answered({"non2xx"}) => ReturnsErrorAtOnce]_vars
  /\ [][cpc = "done" => requests' = requests]_vars

\* A 500 after two pending answers ended the call at its third request.
C17_Witness ==
  /\ cpc = "done"
  /\ lastResp = "non2xx"
  /\ requests = 3
  /\ result = ErrorResult(MsgApiError)

\* C18: a 2xx answer whose status is a terminal error ('failed') makes the call
\* return an error result, with no further request for the record.
C18_TerminalStatusImmediate ==
  lastResp = "failed" => (cpc # "loop" /\ result.error # Undefined)

\* The wait the 429 branch owes for the payload just read.
HintedWait == WaitTime(lastHint') + SafetyMarginMs

\* C19: every 429 answer is followed by one wait of the hinted duration plus
\* the safety margin, the default hint standing in only for a payload that
\* carries no number; the wait is never the pending-status backoff.
C19_RateLimitHonoursHint ==
  [][Answered({"429", "429bad"}) =>
       /\ rateWaits' = rateWaits + 1
       /\ backoffWaits' = backoffWaits
       /\ lastWait' = HintedWait]_vars

\* What holds of the 429 answers whose body is readable JSON.
ReadableRateLimitHonoursHint ==
  [][Answered({"429"}) =>
       /\ rateWaits' = rateWaits + 1
       /\ backoffWaits' = backoffWaits
       /\ lastWait' = HintedWait]_vars

\* C20: while the retry budget is not exhausted, every 429 answer, whatever its
\* body, is followed by a wait and another request, never by an error result.
C20_RateLimitAlwaysRetried ==
  [][(Answered({"429", "429bad"}) /\ retries + 1 < maxRetries) =>
       /\ cpc' = "loop"
       /\ rateWaits' = rateWaits + 1
       /\ result' = NoResult]_vars

(***************************************************************************)
(* The Regenerator's output and the callers' use of it                     *)
(***************************************************************************)
\* C21: in an invocation without a prior entry, the calls issued so far are
\* the roster records gone through so far, one call each and in roster order;
\* when the invocation returns every roster record has been fetched, whatever
\* the results of the records before it were.
C21_NoPriorFetchesEveryRecord ==
  (existingCache = Null /\ rpc \in {"loop", "done"}) =>
    /\ Len(calls) = Len(apiResponses)
    /\ calls = SubSeq(users, 1, Len(calls))
    /\ rpc = "loop" => Len(calls) = idx - 1
    /\ rpc = "done" => calls = users

\* Three roster records, the first of which failed: the two after it were
\* fetched all the same.
C21_Witness ==
  /\ rpc = "done"
  /\ existingCache = Null
  /\ Len(users) = MaxUsers
  /\ apiResponses[1].error # Undefined
  /\ calls = users

\* A cache file changes into an entry with no records.
StoresEmptyEntry ==
  \E k \in AllKeys :
    /\ cache'[k] # cache[k]
    /\ cache'[k] # Null
    /\ Len(cache'[k].apiResponses) = 0

\* C22: an invocation that read an empty roster issues no call and returns no
\* entry, the caller's step that takes its result leaves every cache file as
\* it is, and no step of the engine ever stores an entry without records.
C22_EmptyRosterWritesNothing ==
  [][/\ (stage = "regen" /\ rpc = "done" /\ users = <<>>) =>
          /\ calls = <<>>
          /\ regenOut = Null
          /\ cache' = cache
     /\ ~StoresEmptyEntry]_vars

\* runAll regenerates a key that holds an entry and finds its roster empty.
C22_Witness ==
  /\ op = "runAll"
  /\ stage = "regen"
  /\ rpc = "done"
  /\ users = <<>>
  /\ ~rosterFailed
  /\ regenOut = Null
  /\ cache[CurrentKey] # Null

\* C23: the entry an invocation returns (the one its caller writes) has
\* totalRecords equal to the number of its records, and its records are one
\* per roster record, in roster order, each carrying the id of the roster
\* record at its position, with or without a prior entry.
C23_EntryMatchesRoster ==
  (rpc = "done" /\ regenOut # Null) =>
    /\ regenOut.totalRecords = Len(regenOut.apiResponses)
    /\ Len(regenOut.apiResponses) = Len(users)
    /\ \A i \in DOMAIN users : regenOut.apiResponses[i].record = <<users[i]>>

\* A partial repair of a roster whose order differs from the prior entry's:
\* one record reused, one fetched.
C23_Witness ==
  /\ rpc = "done"
  /\ regenOut # Null
  /\ existingCache # Null
  /\ users = <<3, 1>>
  /\ calls = <<3>>
  /\ regenOut.totalRecords = 2
  /\ regenOut.apiResponses[2] \in PriorSuccessesOf(existingCache, 1)

\* The entry read for the key was generated on the current business date.
GeneratedToday(c) ==
  /\ c # Null
  /\ c # Corrupt
  /\ c.hasList
  /\ GenStr(c.generatedAt) = TodayStr(now)

\* C24: in a runAll(false) pass, when the entry of a key was generated on the
\* current business date, no call is issued for a record that has a success
\* in that entry.
C24_NoRepayForSuccess ==
  (op = "runAll" /\ ~forceAll /\ stage = "regen" /\ GeneratedToday(cached)) =>
    \A k \in DOMAIN calls : calls[k] \notin PriorSuccessIds(cached)

\* Today's entry holds a success for record 1 and an error for record 2: the
\* pass fetched record 2 only.
C24_Witness ==
  /\ op = "runAll"
  /\ ~forceAll
  /\ stage = "regen"
  /\ rpc = "done"
  /\ GeneratedToday(cached)
  /\ PriorSuccessIds(cached) = {1}
  /\ users = <<1, 2>>
  /\ calls = <<2>>

\* The outcome the per-item report owes for what the recomputation returned:
\* a record succeeded when it carries a metrics payload.
FailedCount(entry) ==
  Cardinality({k \in DOMAIN entry.apiResponses :
                 ~IsSuccessPayload(entry.apiResponses[k])})

OwedItemStatus(entry) ==
  IF entry = Null THEN "error"
  ELSE IF FailedCount(entry) = 0 THEN "success"
  ELSE IF FailedCount(entry) < entry.totalRecords THEN "partial"
  ELSE "error"

\* One outcome per item gone through, in item order.
ItemOutcomesInOrder ==
  (lastOp = "selective" /\ passStatus \in {"running", "complete"}) =>
    /\ Len(results) = (IF stage = "regen" THEN ii - 1 ELSE Min(ii - 1, Len(items)))
    /\ \A k \in DOMAIN results :
         /\ results[k].department = items[k].department
         /\ results[k].range = items[k].range
    /\ passStatus = "complete" => Len(results) = Len(items)

\* C25: the selective resync reports one outcome per requested item, in item
\* order: 'success' when every record of the item succeeded, 'partial' when
\* some did, 'error' when none did or nothing was returned.
C25_PerItemOutcome ==
  /\ []ItemOutcomesInOrder
  /\ [][(op = "selective" /\ stage = "regen" /\ rpc = "done") =>
          results' = Append(results, ItemResult(OwedItemStatus(regenOut)))]_vars

\* The key the operation under way works on.
WorkKey == IF op = "selective" THEN ItemKey ELSE CurrentKey

\* What the key held before the operation touched it.
HeldBefore == IF op = "selective" THEN deleted ELSE cache[CurrentKey]

IsEntry(c) == c # Null /\ c # Corrupt

\* C26: when the roster query of a combination rejected, the step that ends
\* the combination leaves an entry the key held before the operation touched
\* it in place, and the operation goes on with the next combination.
C26_RosterFailureKeepsEntry ==
  [][(rosterFailed /\ stage = "regen" /\ rpc = "done") =>
       /\ IsEntry(HeldBefore) => cache'[WorkKey] = HeldBefore
       /\ passStatus' \in {"running", "complete"}]_vars

\* What holds of runAll: the entry is intact after a rejected roster query.
RunAllRosterFailureKeepsEntry ==
  [][(op = "runAll" /\ rosterFailed /\ stage = "regen" /\ rpc = "done") =>
       /\ cache' = cache
       /\ passStatus' \in {"running", "complete"}]_vars

\* The tenant the operation under way works for.
WorkTenant == IF op = "selective" THEN tenants[1].id ELSE tenants[ti].id

\* C27: every provider call and every change of a cache file (write or
\* delete) is done for a tenant that was active when the operation started.
C27_InactiveTenantsSkipped ==
  [][(cache' # cache \/ Len(calls') > Len(calls)) => WorkTenant \in activeIds]_vars

\* What holds of runAll: it works for active tenants only.
RunAllWorksForActiveTenants ==
  (op = "runAll" /\ stage \in {"tenant", "combo", "regen"}) =>
    tenants[ti].id \in activeIds

(***************************************************************************)
(* Properties of getDateRange (SpecRange)                                  *)
(***************************************************************************)
\* The New York wall clock of an instant given in Unix seconds: its day
\* number, its date, and the second of the day.
LocalSeconds(s) == s - (EtOffsetAt(s \div SecondsPerMinute) * SecondsPerMinute)
LocalDay(s) == LocalSeconds(s) \div SecondsPerDay
LocalSecondOfDay(s) == LocalSeconds(s) % SecondsPerDay
LocalDate(s) == LET p == UTCParts(LocalDay(s)) IN <<p.year, p.month + 1, p.day>>

\* The calendar quarter before the one the New York date of instant t is in:
\* its year and its first month (1-based).
PreviousQuarter(t) ==
  LET p == FormatToParts(t)
      q == (p.month - 1) \div 3
  IN IF q = 0 THEN [year |-> p.year - 1, first |-> 10]
     ELSE [year |-> p.year, first |-> (3 * (q - 1)) + 1]

\* C28: 'lastQuarter' resolves to the whole previous calendar quarter: from
\* 00:00:00 of the first day of its first month to 23:59:59 of the last day of
\* its third month, New York time; in January, February and March that is
\* October 1 to December 31 of the year before.
C28_LastQuarterIsPreviousQuarter ==
  rangeOut.name = "lastQuarter" =>
    LET pq == PreviousQuarter(now) IN
    /\ LocalDate(rangeOut.start) = <<pq.year, pq.first, 1>>
    /\ LocalSecondOfDay(rangeOut.start) = 0
    /\ LocalDate(rangeOut.end) =
         <<pq.year, pq.first + 2, MonthLength(pq.year, pq.first + 2)>>
    /\ LocalSecondOfDay(rangeOut.end) = SecondsPerDay - 1

\* Evaluated in February 2025: October 1 to December 31, 2024.
C28_Witness ==
  /\ rangeOut.name = "lastQuarter"
  /\ FormatToParts(now).year = 2025
  /\ FormatToParts(now).month = 2
  /\ LocalDate(rangeOut.start) = <<2024, 10, 1>>
  /\ LocalDate(rangeOut.end) = <<2024, 12, 31>>

\* The span ends at 23:59:59 of the Saturday before today and starts at
\* 00:00:00 of the Sunday six days before that Saturday.
LastWeekIsPrecedingWeek ==
  LET today == EtDay(now)
      endDay == LocalDay(rangeOut.end)
      startDay == LocalDay(rangeOut.start)
  IN /\ Weekday(endDay) = 6
     /\ endDay < today
     /\ today - endDay <= 7
     /\ LocalSecondOfDay(rangeOut.end) = SecondsPerDay - 1
     /\ startDay = endDay - 6
     /\ LocalSecondOfDay(rangeOut.start) = 0

\* C29: 'lastWeek', on whatever day of the week it is evaluated, resolves to
\* the seven days from the Sunday 00:00:00 to the Saturday 23:59:59 that
\* immediately precede today, New York time.
C29_LastWeekIsPrecedingWeek ==
  rangeOut.name = "lastWeek" => LastWeekIsPrecedingWeek

\* What holds when both clock reads of the evaluation fall on the same New
\* York day.
LastWeekWhenReadsAgree ==
  (rangeOut.name = "lastWeek" /\ EtDay(dowInstant) = EtDay(now)) =>
    LastWeekIsPrecedingWeek

\* C30: for each of lastWeek, lastMonth and lastQuarter and every current
\* date, start <= end and end is before 00:00:00 of the current New York
\* day; lastMonth evaluated in January ends on December 31 of the year before.
C30_RangesLieInThePast ==
  (rangeOut.name \in {RANGES[r] : r \in DOMAIN RANGES}) =>
    /\ rangeOut.start <= rangeOut.end
    /\ LocalDay(rangeOut.end) < EtDay(now)
    /\ (rangeOut.name = "lastMonth" /\ FormatToParts(now).month = 1) =>
         /\ LocalDate(rangeOut.start) = <<FormatToParts(now).year - 1, 12, 1>>
         /\ LocalDate(rangeOut.end) = <<FormatToParts(now).year - 1, 12, 31>>

\* lastMonth evaluated in January 2026: December 2025.
C30_Witness ==
  /\ rangeOut.name = "lastMonth"
  /\ FormatToParts(now).year = 2026
  /\ FormatToParts(now).month = 1
  /\ LocalDate(rangeOut.end) = <<2025, 12, 31>>
  /\ rangeOut.start < rangeOut.end

(***************************************************************************)
(* The pending backoff of callFrontApi (SpecClient)                        *)
(***************************************************************************)
\* The wait the claim's formula gives for the k-th pending answer in a row.
StatedBackoff(k) == Min(2500 + (500 * k), 8000)

\* A not-done answer that does not exhaust the budget is followed by one
\* backoff wait of w milliseconds, which is not below the backoff of any
\* earlier attempt and not above the cap; the answer that exhausts the budget
\* is followed by no wait.
BackoffAfterPending(w) ==
  IF retries + 1 < maxRetries
    THEN /\ backoffWaits' = backoffWaits + 1
         /\ lastWait' = w
         /\ \A r \in 1..retries : BackoffMs(r) <= lastWait'
         /\ lastWait' <= 8000
    ELSE /\ backoffWaits' = backoffWaits
         /\ rateWaits' = rateWaits
         /\ lastWait' = lastWait
         /\ cpc' = "done"

\* C31 as stated: the wait after the k-th consecutive pending answer is
\* min(2500 + 500*k, 8000) ms.
C31_BackoffByConsecutivePending ==
  [][Answered(NotDoneStatuses) => BackoffAfterPending(StatedBackoff(pendingRun'))]_vars

\* C31: the wait after a not-done answer is min(2500 + 500*n, 8000) ms, n
\* being the number of attempts of the call so far, rate-limited ones
\* included; it never decreases from one attempt to the next, never exceeds
\* 8000 ms, and no wait follows the attempt that exhausts the budget.
C31_BackoffByAttempt ==
  [][Answered(NotDoneStatuses) => BackoffAfterPending(StatedBackoff(retries'))]_vars

\* A pending answer right after a rate-limited one: the first pending in a
\* row, the second attempt, a wait of 3500 ms.
C31_Witness ==
  /\ cpc = "loop"
  /\ lastResp = "pending"
  /\ n429 = 1
  /\ pendingRun = 1
  /\ retries = 2
  /\ lastWait = 3500

CachesAtStartFair ==
  {EmptyCache} \cup
  {[EmptyCache EXCEPT ![CacheKey(TenantRow(1).slug, "Sales", RANGES[1])] = f] :
     f \in {Corrupt} \cup {NoListEntry("Sales", RANGES[1], at) : at \in GenTimes}
            \cup {PriorEntryOf("Sales", RANGES[1], at, PriorRecords(kinds, 2)) :
                    at \in GenTimes, kinds \in {<<"M1", "error">>, <<"M1", "M1">>}}}

InitFair ==
  /\ InitClient
  /\ InitRegen
  /\ InitOrch
  /\ InitSched
  /\ InitServer
  /\ InitRange
  /\ disk = [k \in DOMAIN WorkKeys |-> NoFile]
  /\ now \in NowValues
  /\ cache \in CachesAtStartFair

\* A continuation of an operation under way: every await of the two
\* operations is on a promise that settles (a query, a provider call that
\* returns by its retry budget, a timer), and the event loop then runs the
\* continuation.
OperationStep ==
  \/ TenantStep /\ EngineOnly
  \/ ComboStep /\ EngineOnly
  \/ ComboFinish /\ EngineOnly
  \/ OpReuse /\ EngineOnly
  \/ OpFetch /\ EngineOnly
  \/ ItemStep /\ EngineOnly
  \/ ItemFinish /\ EngineOnly

NextFair ==
  \/ \E force \in BOOLEAN : StartRunAll(force) /\ EngineOnly
  \/ \E tenantId \in {1, 2} : StartSelective(tenantId) /\ EngineOnly
  \/ OperationStep

SpecFair == InitFair /\ [][NextFair]_vars /\ WF_vars(OperationStep)

(***************************************************************************)
(* Termination of a pass                                                   *)
(***************************************************************************)
\* An entry the pass under way wrote: the files found at start are older.
WrittenThisPass(k) == IsEntry(cache[k]) /\ cache[k].generatedAt = now

\* C33: a pass regenerates a key at most once: when the Regenerator is
\* invoked for a combination, the key of the combination holds no entry this
\* pass wrote.
C33_EachKeyOncePerPass ==
  (op = "runAll" /\ stage = "regen") => ~WrittenThisPass(CurrentKey)

\* The part of C33 that holds: a pass that began reaches its end or its error
\* exit, and every step of it moves forward in the order of its loops.
PassTerminates == (op = "runAll") ~> (op = "idle" /\ passStatus \in {"complete", "failed"})

(***************************************************************************)
(* Credentials                                                             *)
(***************************************************************************)
\* The subject of the invocation under way is the synthetic individuals
\* subject (precalculateIndividuals), not a department of the Directory.
SubjectIsIndividuals ==
  IF op = "selective" THEN items[ii].department = "individuals" ELSE phase = "indiv"

\* C34: while the Regenerator works for a subject of a tenant, in either
\* operation, the credential and the endpoint it was given are that tenant's,
\* the credential is of the kind of the subject, and the individuals subject
\* is worked on only with an individuals credential in the tenant's key row.
C34_CredentialIsolation ==
  stage = "regen" =>
    /\ apiKey.tenant = WorkTenant
    /\ endpoint = WorkTenant
    /\ apiKey.kind = (IF SubjectIsIndividuals THEN "individuals" ELSE "department")
    /\ SubjectIsIndividuals => keys.indiv
    /\ keys.front

\* A call was made for the individuals subject of the second tenant by
\* regenerateSpecific.
C34_Witness ==
  /\ op = "selective"
  /\ stage = "regen"
  /\ tenants[1].id = 2
  /\ items[ii].department = "individuals"
  /\ Len(calls) = 1
  /\ apiKey = ApiKeyOf(2, "individuals")

\* The same for the second tenant of a runAll pass.
RunAllIndividualsCall ==
  /\ op = "runAll"
  /\ stage = "regen"
  /\ ti = 2
  /\ phase = "indiv"
  /\ Len(calls) = 1
  /\ apiKey = ApiKeyOf(2, "individuals")

(***************************************************************************)
(* SpecRepair: runPrecalculation(false) again and again on one day, with a *)
(* steady Directory: one tenant, one department, a roster of two users     *)
(***************************************************************************)
\* generatedAt of a file left by a run of the week before:
\* 2025-01-10 02:00Z (Thursday Jan 9 in New York)
GenTimeEarlierWeek == (9 * MinutesPerDay) + 120

\* generatedAt of a file written earlier on the day of the run
GenTimeToday == (14 * MinutesPerDay) + 400

SteadyRoster == <<1, 2>>

SteadyKeys == {CacheKey(TenantRow(1).slug, "Sales", RANGES[r]) : r \in DOMAIN RANGES}

\* An entry of today with a success for both users
FreshEntry(rng) ==
  PriorEntryOf("Sales", rng, GenTimeToday, PriorRecords(<<"M1", "M1">>, 2))

\* The file in need of repair: an entry with a success for the first user and
\* none for the second, a document without its list, or bytes that are not
\* JSON (a write cut short)
FilesToRepair(rng) ==
  {PriorEntryOf("Sales", rng, at, PriorRecords(<<"M1", kind>>, 2)) :
     at \in GenTimes \cup {GenTimeEarlierWeek}, kind \in {"error", "noMetrics"}}
  \cup {NoListEntry("Sales", rng, GenTimeToday), Corrupt}

\* Two keys hold today's entry without errors, the third a file to repair.
CachesAtStartRepair ==
  UNION {{[k \in AllKeys |->
             IF k = CacheKey(TenantRow(1).slug, "Sales", RANGES[bad]) THEN f
             ELSE IF k \in SteadyKeys THEN FreshEntry(k[3])
             ELSE Null] : f \in FilesToRepair(RANGES[bad])} :
         bad \in DOMAIN RANGES}

InitRepair ==
  /\ InitClient
  /\ InitRegen
  /\ InitOrch
  /\ InitSched
  /\ InitServer
  /\ InitRange
  /\ disk = [k \in DOMAIN WorkKeys |-> NoFile]
  /\ now \in NowValues
  /\ cache \in CachesAtStartRepair

\* The Scheduler (or an operator) starts runPrecalculation(false) once more;
\* the provider calls served are counted per pass.
RunAgain ==
  /\ served' = 0
  /\ ops' = ops
  /\ RunPrecalculationEntry(FALSE)

\* The Directory answers every query, and the same way in every pass.
SteadyStart == RunAgain /\ tenants' = <<TenantRow(1)>>

SteadyTenantStep ==
  /\ TenantStep
  /\ stage' = "combo"
  /\ departments' = <<"Sales">>
  /\ ~keys'.indiv

SteadyComboStep ==
  /\ ComboStep
  /\ stage' = "regen" => (users' = SteadyRoster /\ ~rosterFailed')

\* The provider answers 'done' with metrics.
ProviderAnswersDone ==
  /\ OpFetch
  /\ IsSuccessPayload(apiResponses'[Len(apiResponses')])

RepairStep ==
  \/ SteadyTenantStep /\ EngineOnly
  \/ SteadyComboStep /\ EngineOnly
  \/ ComboFinish /\ EngineOnly
  \/ OpReuse /\ EngineOnly
  \/ OpFetch /\ EngineOnly

NextRepair ==
  \/ SteadyStart /\ EngineOnly
  \/ RepairStep

\* Passes keep being started, the continuations of a pass run, and the
\* provider answers 'done' with metrics again and again when it is asked.
SpecRepair ==
  /\ InitRepair
  /\ [][NextRepair]_vars
  /\ WF_vars(RepairStep)
  /\ WF_vars(SteadyStart /\ EngineOnly)
  /\ SF_vars(ProviderAnswersDone /\ EngineOnly)

(***************************************************************************)
(* Intervals of the payloads of an entry                                   *)
(***************************************************************************)
\* getDateRange(name) with the clock at t
DateRangeAt(name, t) ==
  CASE name = "lastWeek" -> LastWeekRange(t, t)
    [] name = "lastMonth" -> LastMonthRange(t)
    [] OTHER -> LastQuarterRange(t)

\* timestampStart / timestampEnd of an entry: the range at its generation
EntryRange(c) == DateRangeAt(c.range, c.generatedAt)

\* C35: in the entry a runAll pass is about to write, every success record
\* either comes from a call of this invocation, or was taken from a prior
\* entry whose interval is the interval of the entry being written.
C35_PayloadsOfOwnInterval ==
  (op = "runAll" /\ stage = "regen" /\ rpc = "done" /\ regenOut # Null) =>
    \A k \in DOMAIN regenOut.apiResponses :
      LET r == regenOut.apiResponses[k] IN
      (IsSuccessPayload(r) /\ r.record # <<>>
         /\ r.record[1] \notin {calls[j] : j \in DOMAIN calls})
        => EntryRange(existingCache) = EntryRange(regenOut)

(***************************************************************************)
(* The fixed point of runAll(false) and the way to it                      *)
(***************************************************************************)
\* The key holds an entry of today without error record.
FreshAndErrorFree(k) ==
  /\ IsEntry(cache[k])
  /\ cache[k].hasList
  /\ ~HasErrorRecord(cache[k])
  /\ ~GeneratedOnOtherDate(cache[k])

AllFresh == \A k \in SteadyKeys : FreshAndErrorFree(k)

\* C38: a runAll(false) pass at work while every key holds an entry of today
\* without errors makes no provider call, invokes no Regenerator and changes
\* no file.
C38_FixedPoint ==
  [][(op = "runAll" /\ ~forceAll /\ AllFresh) =>
       /\ cache' = cache
       /\ calls' = calls
       /\ stage' # "regen"]_vars

\* A pass has gone through every key and ended without a provider call, after
\* an earlier pass repaired the file found at start.
C38_Witness ==
  /\ lastOp = "runAll"
  /\ passStatus = "complete"
  /\ processed = SteadyKeys
  /\ served = 0
  /\ decision = "skip"
  /\ AllFresh

SuccessCount(c) ==
  IF IsEntry(c) /\ c.hasList
    THEN Cardinality({k \in DOMAIN c.apiResponses : IsSuccessPayload(c.apiResponses[k])})
    ELSE 0

NoSuccessLost ==
  [][\A k \in AllKeys : SuccessCount(cache'[k]) >= SuccessCount(cache[k])]_vars

\* Every key ends up with an entry without error record, for good.
Converges == <>[](\A k \in SteadyKeys : IsEntry(cache[k]) /\ cache[k].hasList
                                        /\ ~HasErrorRecord(cache[k]))

\* C39: repeated runAll(false) passes with a steady roster and a provider
\* that answers 'done' with metrics again and again leave every key with an
\* entry without error record, and no write lowers the number of successes of
\* a key.
C39_PartialRepairConverges == Converges /\ NoSuccessLost

\* Every file found at start is a document with its list of records.
ReadableAtStart == \A k \in SteadyKeys : IsEntry(cache[k]) /\ cache[k].hasList

\* The part of C39 that holds: from files the policy can read, the passes
\* converge (and no write loses a success: NoSuccessLost).
ConvergesFromReadableFiles == ReadableAtStart => Converges

(***************************************************************************)
(* Keys of the subjects of one tenant (Spec)                               *)
(***************************************************************************)
\* The departments of a tenant with an individuals credential have keys of
\* their own.
DepartmentKeysApart ==
  (op = "runAll" /\ stage \in {"combo", "regen"} /\ keys.indiv) =>
    \A d \in DOMAIN departments, r \in DOMAIN RANGES :
      CacheKey(tenants[ti].slug, departments[d], RANGES[r])
        # CacheKey(tenants[ti].slug, "individuals", RANGES[r])

\* A write puts an entry in place of an entry of the same subject only.
NoSubjectOverwritesAnother ==
  [][\A k \in AllKeys :
       (IsEntry(cache[k]) /\ IsEntry(cache'[k]))
         => cache'[k].department = cache[k].department]_vars

\* C40: within a tenant no department shares a key with the individuals
\* subject, and no entry of one subject is overwritten with an entry of
\* another.
C40_SubjectsKeepApart == []DepartmentKeysApart /\ NoSubjectOverwritesAnother

(***************************************************************************)
(* Passes of the server process that overlap (SpecServer)                  *)
(***************************************************************************)
\* The passes over every tenant: the Scheduler's (at startup, at 06:00) and
\* the one of POST /api/cache/regenerate
FullPasses == {"scheduled", "manual"}

\* The pass has started and has neither ended nor failed.
UnderWay(w) == wstate[w] \in {"running", "inprogress", "computed", "writing"}

\* C36: no two full passes are under way at the same time, so that no two of
\* them await provider calls made with the same credential.
C36_PassesNeverOverlap ==
  \A w1, w2 \in FullPasses : (UnderWay(w1) /\ UnderWay(w2)) => w1 = w2

AtRest(w) == wstate[w] \in {"idle", "finished", "failed"}

\* C37: once the selective resync has finished and no full pass is under
\* way, no key holds records copied from a file that was there before the
\* selective resync deleted it.
C37_SelectiveResultStands ==
  (wstate["selective"] = "finished" /\ \A w \in FullPasses : AtRest(w)) =>
    \A k \in DOMAIN WorkKeys : ~HoldsOldRecords(disk[k])

\* What holds: a selective resync no full pass was under way with leaves no
\* record of the files it deleted.
SelectiveAloneStands ==
  (wstate["selective"] = "finished" /\ \A w \in FullPasses : wstate[w] = "idle") =>
    \A k \in DOMAIN WorkKeys : ~HoldsOldRecords(disk[k])

====
